---- MODULE Spec2Model ----
(***************************************************************************)
(* State-machine models of bazinga-site, one specification per component:  *)
(*   - ServerTracker (src/assets/server-tracking.js): the event queue, its *)
(*     flush triggers, the retry loop and the requeue (SpecST, SpecRetry,  *)
(*     SpecBatch, SpecLive).                                               *)
(*   - ABTestManager (src/assets/site.js): bucketing, the variant table    *)
(*     and the persisted assignments (SpecAB, SpecDist, SpecAssign).       *)
(*   - the likes, post and note endpoints and commitToGitHub               *)
(*     (src/unnamed/part_001..003: SpecLike, SpecWrite, SpecCommit).       *)
(*   - construction of the client objects (SpecBoot), language memory      *)
(*     (SpecLang), conversion goals (SpecGoal), exit intent (SpecExit)     *)
(*     and the FormTracker (SpecForm).                                     *)
(* While one component runs, the variables of the others keep their idle   *)
(* values.                                                                 *)
(***************************************************************************)
EXTENDS Integers, Sequences, FiniteSets, TLC

VARIABLES
  \* ---- ServerTracker ----
  eventQueue,   \* this.eventQueue: sequence of events [id, retryCount]
  isOnline,     \* this.isOnline
  flushTimer,   \* this.flushTimer is set (the 30 s interval is running)
  inflight,     \* pending flushQueue/sendAsync invocations (awaiting fetch or delay)
  tracked,      \* number of track() calls so far; the next event gets id tracked+1
  page,         \* "live" until beforeunload has run, then "unloaded"
  lastOp,       \* history: the handler that ran last and the batch it handed over
  sends,        \* history: number of asynchronous sends flushQueue has started
  dropped,      \* history: the events the catch block did not put back
  \* ---- ABTestManager ----
  abUserId,     \* this.userId (a string as a sequence of char codes, or NullId)
  abSessionId,  \* this.sessionId
  storedUserId, \* localStorage['user-journey-id'] (NoItem when absent)
  lastSel,      \* history: the last selectVariantForUser call and its result
  refSel,       \* history: one earlier selectVariantForUser call kept for comparison
  \* ---- ABTestManager: the sweep over the values of hash % 10000 ----
  distTable,    \* the experiment whose variants table is swept
  distN,        \* the next value of hash % 10000 to put through the loop
  distCount,    \* per variant (by position), the values that selected it so far
  \* ---- ABTestManager: persisted assignments, one manager per open page ----
  asgStore,     \* localStorage['ab_test_assignments']: set of assignments
  asgTabs,      \* per browser tab: ClosedTab, or this.userAssignments of its page
  asgLoads,     \* number of page loads so far (stands for the clock of assignedAt)
  asgLast,      \* history: what the last page load did for its experiment
  asgKept,      \* history: assignments saved at the unload of the page that made them
  \* ---- likes endpoint (src/unnamed/part_001) ----
  likeConfigured, \* SUPABASE_URL and SUPABASE_ANON_KEY are both set
  likeStore,    \* the likes table: set of rows [page_id, count]
  likeReqs,     \* handler invocations waiting on a supabaseRequest
  likeStarted,  \* number of invocations so far
  likeLast,     \* history: the invocation that ended last and how it ended
  likeLedger,   \* history, per page id: initial count, successful POSTs, and
                \* whether every POST so far succeeded without overlap
  \* ---- post and note creation endpoints (src/unnamed/part_002, part_003) ----
  writeEnv,     \* process.env: the three variables are set or not, and NODE_ENV
  writeReq,     \* the handler invocation waiting on a fetch to GitHub, or NoWrite
  writeStarted, \* number of invocations so far
  github,       \* number of requests GitHub has received
  writeLast,    \* history: the invocation that ended last and how it ended
  \* ---- construction of the client objects at DOMContentLoaded ----
  storageMode,  \* localStorage: "works", "readonly" (setItem throws) or "throws"
  storageItems, \* the items of localStorage the constructors read
  pageObjects,  \* per global (abTestManager, journeyTracker, serverTracker):
                \* not constructed yet, constructed, or its constructor threw
  pageLoads,    \* number of page loads so far
  \* ---- commitToGitHub of the post and note endpoints, and the repository ----
  repoFiles,    \* per endpoint and path: the content of the file, or "none"
  commitReqs,   \* invocations waiting on a fetch of commitToGitHub
  commitClock,  \* Date.now(), in milliseconds since the requests arrived
  commitStarted,\* number of invocations so far
  commitLast,   \* history: the invocation that ended last and its response
  repoChanged,  \* history: the existing files whose content a PUT replaced
  \* ---- language memory of the site script (src/unnamed/part_005) ----
  langPath,     \* window.location.pathname of the open page, as its segments
  langSession,  \* sessionStorage: 'language-redirected' and 'visited-before'
                \* are set or not
  langSaved,    \* localStorage['site-language-preference'], or "null"
  langBrowser,  \* navigator.languages, lower-cased
  langTimers,   \* the paths the pending setTimeout callbacks navigate to
  langLink,     \* the href of a clicked switcher link the browser is loading
  langLoads,    \* number of page loads so far
  langLast,     \* history: the flag the last page load found, and the
                \* redirects it started
  langSince,    \* history: redirects started and carried out since the last
                \* switcher click
  \* ---- conversion goals of one page (journey-tracking.js, site.js,
  \* ---- server-tracking.js)
  conversionGoals, \* journeyTracker.conversionGoals
  goalWrappers, \* the wrappers around journeyTracker.trackConversionGoal,
                \* innermost first
  goalExperiments, \* the ids of abTestManager.experiments
  goalRecords,  \* per event name and goal name, the events emitted so far
  goalCalls,    \* number of trackConversionGoal calls so far
  goalLast,     \* history: the last call, whether its goal was recorded
                \* before, and the downstream events it added
  \* ---- exit intent detection of the JourneyTracker ----
  exitIntentDetected, \* this.exitIntentDetected
  exitInside,   \* the pointer is inside the document
  exitTimers,   \* the pending 1 s timers, oldest first
  mouseLeaveTimer, \* the handle mouseLeaveTimer holds (0 for null)
  rapidKeyPresses, \* the counter rapidKeyPresses
  exitQuiet,    \* Date.now() - this.lastActivityTime > 300000
  exitEvents,   \* history: the reasons of the journey_exit_intent events
  exitInputs,   \* number of pointer and key events so far
  \* ---- FormTracker of a write page (form-tracking.js) ----
  hasInteracted, \* hasInteracted of setupAbandonmentTracking
  isFormActive, \* isFormActive of setupAbandonmentTracking
  isSubmitted,  \* this.isSubmitted
  formTimers,   \* pending 100 ms timers of the focusout listener
  formPage,     \* "live" until beforeunload has run, then "unloaded"
  formEvents,   \* history: the names of the events sent to trackUmami
  formInputs    \* number of events dispatched on the page so far

stVars == <<eventQueue, isOnline, flushTimer, inflight, tracked, page, lastOp,
            sends, dropped>>
abVars == <<abUserId, abSessionId, storedUserId, lastSel, refSel>>
distVars == <<distTable, distN, distCount>>
asgVars == <<asgStore, asgTabs, asgLoads, asgLast, asgKept>>
likeVars == <<likeConfigured, likeStore, likeReqs, likeStarted, likeLast, likeLedger>>
writeVars == <<writeEnv, writeReq, writeStarted, github, writeLast>>
bootVars == <<storageMode, storageItems, pageObjects, pageLoads>>
commitVars == <<repoFiles, commitReqs, commitClock, commitStarted, commitLast,
                repoChanged>>
langVars ==
  <<langPath, langSession, langSaved, langBrowser, langTimers, langLink,
    langLoads, langLast, langSince>>
goalVars ==
  <<conversionGoals, goalWrappers, goalExperiments, goalRecords, goalCalls,
    goalLast>>
exitVars ==
  <<exitIntentDetected, exitInside, exitTimers, mouseLeaveTimer,
    rapidKeyPresses, exitQuiet, exitEvents, exitInputs>>
formVars ==
  <<hasInteracted, isFormActive, isSubmitted, formTimers, formPage,
    formEvents, formInputs>>
vars ==
  <<stVars, abVars, distVars, asgVars, likeVars, writeVars, bootVars,
    commitVars, langVars, goalVars, exitVars, formVars>>

\* What the steps of one component leave alone: the other components.
notST ==
  <<abVars, distVars, asgVars, likeVars, writeVars, bootVars, commitVars,
    langVars, goalVars, exitVars, formVars>>
notAB ==
  <<stVars, distVars, asgVars, likeVars, writeVars, bootVars, commitVars,
    langVars, goalVars, exitVars, formVars>>
notDist ==
  <<stVars, abVars, asgVars, likeVars, writeVars, bootVars, commitVars,
    langVars, goalVars, exitVars, formVars>>
notAsg ==
  <<stVars, abVars, distVars, likeVars, writeVars, bootVars, commitVars,
    langVars, goalVars, exitVars, formVars>>
notLike ==
  <<stVars, abVars, distVars, asgVars, writeVars, bootVars, commitVars,
    langVars, goalVars, exitVars, formVars>>
notWrite ==
  <<stVars, abVars, distVars, asgVars, likeVars, bootVars, commitVars,
    langVars, goalVars, exitVars, formVars>>
notBoot ==
  <<stVars, abVars, distVars, asgVars, likeVars, writeVars, commitVars,
    langVars, goalVars, exitVars, formVars>>
notCommit ==
  <<stVars, abVars, distVars, asgVars, likeVars, writeVars, bootVars,
    langVars, goalVars, exitVars, formVars>>
notLang ==
  <<stVars, abVars, distVars, asgVars, likeVars, writeVars, bootVars,
    commitVars, goalVars, exitVars, formVars>>
notGoal ==
  <<stVars, abVars, distVars, asgVars, likeVars, writeVars, bootVars,
    commitVars, langVars, exitVars, formVars>>
notExit ==
  <<stVars, abVars, distVars, asgVars, likeVars, writeVars, bootVars,
    commitVars, langVars, goalVars, formVars>>
notForm ==
  <<stVars, abVars, distVars, asgVars, likeVars, writeVars, bootVars,
    commitVars, langVars, goalVars, exitVars>>

(***************************************************************************)
(* ServerTracker                                                           *)
(***************************************************************************)

\* Program constants (constructor, server-tracking.js:12-15).
batchSize == 10
maxRetries == 3
retryDelay == 1000

\* Bounds of the two checked scenarios: events tracked, asynchronous sends
\* started in one page life, asynchronous sends pending at once.
\* SpecST: enough events to pass the batch-size threshold, one send.
MaxEvents == 11
MaxSends == 1
\* SpecRetry: few events, enough sends for an event to use up its retries,
\* overlapping sends.
RetryEvents == 2
RetrySends == 5
RetryInFlight == 2

LimST == [events |-> MaxEvents, sends |-> MaxSends, inflight |-> MaxSends]
LimRetry == [events |-> RetryEvents, sends |-> RetrySends, inflight |-> RetryInFlight]
\* SpecBatch: enough events for a full batch and a second one, two sends
\* that may overlap.
BatchEvents == 11
BatchSends == 2
\* SpecLive: as many sends as events, so that no flush is held back for
\* good, one send pending at a time.
LimLive == [events |-> MaxEvents, sends |-> MaxEvents, inflight |-> MaxSends]
LimBatch == [events |-> BatchEvents, sends |-> BatchSends, inflight |-> BatchSends]

\* What a handler leaves in lastOp: its name, the queue length addToQueue
\* (after its push) or flushQueue found (0 for the other handlers), the batch it handed to a transport ("async":
\* fetch, "sync": sendBeacon/XHR) and, when it ended a sendAsync call, how that
\* call ended and for which batch. A handler that returns without changing
\* the tracker leaves lastOp as it is.
Op(op, seen, initiated, transport) ==
  [op |-> op, seen |-> seen, initiated |-> initiated, transport |-> transport,
   outcome |-> "none", fetches |-> 0, waited |-> <<>>, ended |-> <<>>]

RECURSIVE Pow2(_)
\* Math.pow(2, k)
Pow2(k) == IF k = 0 THEN 1 ELSE 2 * Pow2(k - 1)

\* Array.prototype.splice(0, n): the removed head and what stays.
SpliceHead(q, n) == SubSeq(q, 1, IF Len(q) < n THEN Len(q) ELSE n)
SpliceRest_Slice(q, n) == q
SpliceRest(q, n) == SubSeq(q, (IF Len(q) < n THEN Len(q) ELSE n) + 1, Len(q))

ShouldFlushOnAdd_Strict(q) == Len(q) > batchSize
ShouldFlushOnAdd_Always(q) == Len(q) >= 1
\* addToQueue: if (this.eventQueue.length >= this.batchSize)
ShouldFlushOnAdd(q) == Len(q) >= batchSize

FlushReturnsEarly_Always(q, online) == TRUE
FlushReturnsEarly_IgnoresOnline(q, online) == Len(q) = 0
\* flushQueue: if (this.eventQueue.length === 0 || !this.isOnline) return
FlushReturnsEarly(q, online) == Len(q) = 0 \/ ~online

ShouldRetry_OneMore(retryCount) == retryCount <= maxRetries
\* sendAsync catch: if (retryCount < this.maxRetries)
ShouldRetry(retryCount) == retryCount < maxRetries

\* sendAsync catch: this.retryDelay * Math.pow(2, retryCount)
Backoff(retryCount) == retryDelay * Pow2(retryCount)

MayRequeue_OneMore(event) == event.retryCount <= maxRetries
\* flushQueue catch: if (event._retryCount < this.maxRetries)
\* (an undefined _retryCount was set to 0 on the line before)
MayRequeue(event) == event.retryCount < maxRetries

\* flushQueue catch, one iteration of eventsToSend.forEach: the event is
\* counted and unshifted (put at the FRONT of the queue), or left out.
RequeueOne_Push(q, event) ==
  IF MayRequeue(event)
    THEN q \o <<[event EXCEPT !.retryCount = @ + 1]>>
    ELSE q

RequeueOne(q, event) ==
  IF MayRequeue(event)
    THEN <<[event EXCEPT !.retryCount = @ + 1]>> \o q
    ELSE q

RECURSIVE RequeueAll(_, _)
\* flushQueue catch: eventsToSend.forEach(...), in batch order
RequeueAll(q, batch) ==
  IF batch = <<>> THEN q
  ELSE RequeueAll(RequeueOne(q, Head(batch)), Tail(batch))

SeqRange(s) == {s[i] : i \in 1..Len(s)}
IdsOf(s) == {s[i].id : i \in 1..Len(s)}

\* A flush that gets past its guard starts an asynchronous send only within
\* the bounds L of the scenario: fewer than L.inflight sends pending and fewer
\* than L.sends started so far.
CanFlush(q, online, L) ==
  \/ FlushReturnsEarly(q, online)
  \/ (Cardinality(inflight) < L.inflight /\ sends < L.sends)

\* flushQueue(isSync) run by handler op on queue q with this.isOnline = online,
\* up to its first await: guard, splice, payload, sendSync or the first fetch.
FlushQueue(q, online, isSync, op) ==
  IF FlushReturnsEarly(q, online)
    THEN /\ eventQueue' = q
         /\ inflight' = inflight
         /\ sends' = sends
         /\ lastOp' = IF q = eventQueue /\ online = isOnline
                         THEN lastOp ELSE Op(op, Len(q), <<>>, "none")
    ELSE LET eventsToSend == SpliceHead(q, batchSize)
         IN /\ eventQueue' = SpliceRest(q, batchSize)
            /\ IF isSync
                 THEN /\ inflight' = inflight
                      /\ sends' = sends
                      /\ lastOp' = Op(op, Len(q), eventsToSend, "sync")
                 ELSE /\ inflight' = inflight \cup
                             {[events |-> eventsToSend, retryCount |-> 0,
                               phase |-> "fetch", fetches |-> 1, waited |-> <<>>]}
                      /\ sends' = sends + 1
                      /\ lastOp' = Op(op, Len(q), eventsToSend, "async")

\* track(eventName, eventData) -> addToQueue(event)
Track(L) ==
  /\ page = "live"
  /\ tracked < L.events
  /\ LET q1 == Append(eventQueue, [id |-> tracked + 1, retryCount |-> 0])
     IN IF ShouldFlushOnAdd(q1)
          THEN /\ CanFlush(q1, isOnline, L)
               /\ FlushQueue(q1, isOnline, FALSE, "track")
          ELSE /\ eventQueue' = q1
               /\ lastOp' = Op("track", Len(q1), <<>>, "none")
               /\ UNCHANGED <<inflight, sends>>
  /\ tracked' = tracked + 1
  /\ UNCHANGED <<isOnline, flushTimer, page, dropped>>

\* the setInterval callback of startAutoFlush
TimerFires(L) ==
  /\ page = "live"
  /\ flushTimer
  /\ IF Len(eventQueue) > 0
       THEN /\ CanFlush(eventQueue, isOnline, L)
            /\ FlushQueue(eventQueue, isOnline, FALSE, "timer")
       ELSE UNCHANGED <<eventQueue, inflight, sends, lastOp>>
  /\ UNCHANGED <<isOnline, flushTimer, tracked, page, dropped>>

\* window 'online' listener
OnlineEvent(L) ==
  /\ page = "live"
  /\ ~isOnline
  /\ isOnline' = TRUE
  /\ CanFlush(eventQueue, TRUE, L)
  /\ FlushQueue(eventQueue, TRUE, FALSE, "online")
  /\ UNCHANGED <<flushTimer, tracked, page, dropped>>

\* window 'offline' listener
OfflineEvent ==
  /\ page = "live"
  /\ isOnline
  /\ isOnline' = FALSE
  /\ lastOp' = Op("offline", 0, <<>>, "none")
  /\ UNCHANGED <<eventQueue, flushTimer, inflight, tracked, page, sends, dropped>>

\* document 'visibilitychange' listener with document.hidden
PageHidden(L) ==
  /\ page = "live"
  /\ CanFlush(eventQueue, isOnline, L)
  /\ FlushQueue(eventQueue, isOnline, FALSE, "hidden")
  /\ UNCHANGED <<isOnline, flushTimer, tracked, page, dropped>>

\* flush(): manual trigger
ManualFlush(L) ==
  /\ page = "live"
  /\ CanFlush(eventQueue, isOnline, L)
  /\ FlushQueue(eventQueue, isOnline, FALSE, "flush")
  /\ UNCHANGED <<isOnline, flushTimer, tracked, page, dropped>>

\* window 'beforeunload' listener: flushQueue(true); the page is gone afterwards
\* and whatever was pending is abandoned.
BeforeUnload ==
  /\ page = "live"
  /\ FlushQueue(eventQueue, isOnline, TRUE, "beforeunload")
  /\ page' = "unloaded"
  /\ UNCHANGED <<isOnline, flushTimer, tracked, dropped>>

\* clearQueue()
ClearQueue ==
  /\ page = "live"
  /\ eventQueue # <<>>
  /\ eventQueue' = <<>>
  /\ lastOp' = Op("clearQueue", 0, <<>>, "none")
  /\ UNCHANGED <<isOnline, flushTimer, inflight, tracked, page, sends, dropped>>

\* stop()
Stop ==
  /\ page = "live"
  /\ flushTimer
  /\ flushTimer' = FALSE
  /\ lastOp' = Op("stop", 0, <<>>, "none")
  /\ UNCHANGED <<eventQueue, isOnline, inflight, tracked, page, sends, dropped>>

\* start() -> startAutoFlush()
Start ==
  /\ page = "live"
  /\ ~flushTimer
  /\ flushTimer' = TRUE
  /\ lastOp' = Op("start", 0, <<>>, "none")
  /\ UNCHANGED <<eventQueue, isOnline, inflight, tracked, page, sends, dropped>>

\* sendAsync: the awaited fetch resolved with response.ok and a JSON body;
\* sendAsync returns and flushQueue ends.
FetchSucceeds(b) ==
  /\ page = "live"
  /\ b \in inflight /\ b.phase = "fetch"
  /\ inflight' = inflight \ {b}
  /\ lastOp' = [Op("sendAsync", 0, <<>>, "none") EXCEPT
                  !.outcome = "success", !.fetches = b.fetches, !.waited = b.waited,
                  !.ended = b.events]
  /\ UNCHANGED <<eventQueue, isOnline, flushTimer, tracked, page, sends, dropped>>

\* sendAsync: the attempt threw (network error, !response.ok, bad JSON body).
\* Either the backoff delay starts, or the error reaches flushQueue's catch,
\* which requeues the batch.
FetchFails(b) ==
  /\ page = "live"
  /\ b \in inflight /\ b.phase = "fetch"
  /\ IF ShouldRetry(b.retryCount)
       THEN /\ inflight' = (inflight \ {b}) \cup
                   {[b EXCEPT !.phase = "delay",
                              !.waited = Append(@, Backoff(b.retryCount))]}
            /\ lastOp' = Op("sendAsync", 0, <<>>, "none")
            /\ UNCHANGED <<eventQueue, dropped>>
       ELSE /\ inflight' = inflight \ {b}
            /\ eventQueue' = RequeueAll(eventQueue, b.events)
            /\ dropped' = dropped \cup {x \in SeqRange(b.events) : ~MayRequeue(x)}
            /\ lastOp' = [Op("sendAsync", 0, <<>>, "none") EXCEPT
                  !.outcome = "throw", !.fetches = b.fetches, !.waited = b.waited,
                  !.ended = b.events]
  /\ UNCHANGED <<isOnline, flushTimer, tracked, page, sends>>

\* sendAsync: the awaited delay(ms) resolved; sendAsync(payload, retryCount + 1)
\* issues the next fetch.
DelayElapsed(b) ==
  /\ page = "live"
  /\ b \in inflight /\ b.phase = "delay"
  /\ inflight' = (inflight \ {b}) \cup
        {[b EXCEPT !.phase = "fetch", !.retryCount = @ + 1, !.fetches = @ + 1]}
  /\ lastOp' = Op("sendAsync", 0, <<>>, "none")
  /\ UNCHANGED <<eventQueue, isOnline, flushTimer, tracked, page, sends, dropped>>

\* Values the A/B variables keep while the tracker runs.
NullId == <<-1>>
NoItem == <<>>
NoSel == [called |-> FALSE]

IdleAB ==
  /\ abUserId = NullId
  /\ abSessionId = <<>>
  /\ storedUserId = NoItem
  /\ lastSel = NoSel
  /\ refSel = NoSel

\* Values the tracker variables keep while the A/B manager runs.
IdleST ==
  /\ eventQueue = <<>>
  /\ isOnline = TRUE
  /\ flushTimer = TRUE
  /\ inflight = {}
  /\ tracked = 0
  /\ page = "live"
  /\ lastOp = Op("construct", 0, <<>>, "none")
  /\ sends = 0
  /\ dropped = {}

\* Values the sweep variables keep while another component runs.
IdleDist ==
  /\ distTable = ""
  /\ distN = 0
  /\ distCount = <<>>

\* Browser tabs that may show a page of the site at the same time.
Tabs == {1, 2}
ClosedTab == [open |-> FALSE]
NoLoad == [loaded |-> FALSE]

\* Values the assignment variables keep while another component runs.
IdleAsg ==
  /\ asgStore = {}
  /\ asgTabs = [t \in Tabs |-> ClosedTab]
  /\ asgLoads = 0
  /\ asgLast = NoLoad
  /\ asgKept = {}

NoRequest == [ended |-> FALSE]

\* Values the variables of the likes endpoint keep while another component runs.
IdleLike ==
  /\ likeConfigured = FALSE
  /\ likeStore = {}
  /\ likeReqs = {}
  /\ likeStarted = 0
  /\ likeLast = NoRequest
  /\ likeLedger = <<>>

NoWrite == [pending |-> FALSE]
NoInvocation == [ended |-> FALSE]

\* Values the variables of the creation endpoints keep while another
\* component runs.
IdleWrite ==
  /\ writeEnv = [configured |-> FALSE, NODE_ENV |-> ""]
  /\ writeReq = NoWrite
  /\ writeStarted = 0
  /\ github = 0
  /\ writeLast = NoInvocation

\* Values the construction variables keep while another component runs.
IdleBoot ==
  /\ storageMode = "works"
  /\ storageItems = <<>>
  /\ pageObjects = <<>>
  /\ pageLoads = 0

\* Values the commit variables keep while another component runs.
IdleCommit ==
  /\ repoFiles = <<>>
  /\ commitReqs = {}
  /\ commitClock = 0
  /\ commitStarted = 0
  /\ commitLast = NoInvocation
  /\ repoChanged = {}

\* Values the language memory variables keep while another component runs.
IdleLang ==
  /\ langPath = <<>>
  /\ langSession = [redirected |-> FALSE, visited |-> FALSE]
  /\ langSaved = "null"
  /\ langBrowser = <<>>
  /\ langTimers = {}
  /\ langLink = {}
  /\ langLoads = 0
  /\ langLast = NoLoad
  /\ langSince = [started |-> 0, done |-> 0]

\* Values the conversion goal variables keep while another component runs.
IdleGoal ==
  /\ conversionGoals = {}
  /\ goalWrappers = <<>>
  /\ goalExperiments = {}
  /\ goalRecords = <<>>
  /\ goalCalls = 0
  /\ goalLast = NoSel

\* Values the exit intent variables keep while another component runs.
IdleExit ==
  /\ exitIntentDetected = FALSE
  /\ exitInside = TRUE
  /\ exitTimers = <<>>
  /\ mouseLeaveTimer = 0
  /\ rapidKeyPresses = 0
  /\ exitQuiet = FALSE
  /\ exitEvents = <<>>
  /\ exitInputs = 0

\* Values the form tracker variables keep while another component runs.
IdleForm ==
  /\ hasInteracted = FALSE
  /\ isFormActive = FALSE
  /\ isSubmitted = [kind |-> "undefined"]
  /\ formTimers = 0
  /\ formPage = "live"
  /\ formEvents = <<>>
  /\ formInputs = 0

\* Every component but the one named is at rest.
Idle(component) ==
  /\ IF component = "ST" THEN TRUE ELSE IdleST
  /\ IF component \in {"AB", "Asg"} THEN TRUE ELSE IdleAB
  /\ IF component = "Dist" THEN TRUE ELSE IdleDist
  /\ IF component = "Asg" THEN TRUE ELSE IdleAsg
  /\ IF component = "Like" THEN TRUE ELSE IdleLike
  /\ IF component = "Write" THEN TRUE ELSE IdleWrite
  /\ IF component = "Boot" THEN TRUE ELSE IdleBoot
  /\ IF component = "Commit" THEN TRUE ELSE IdleCommit
  /\ IF component = "Lang" THEN TRUE ELSE IdleLang
  /\ IF component = "Goal" THEN TRUE ELSE IdleGoal
  /\ IF component = "Exit" THEN TRUE ELSE IdleExit
  /\ IF component = "Form" THEN TRUE ELSE IdleForm

\* new ServerTracker(): the state after the constructor and init()
InitST ==
  /\ eventQueue = <<>>
  /\ isOnline \in BOOLEAN
  /\ flushTimer = TRUE
  /\ inflight = {}
  /\ tracked = 0
  /\ page = "live"
  /\ lastOp = Op("construct", 0, <<>>, "none")
  /\ sends = 0
  /\ dropped = {}
  /\ Idle("ST")

\* The calls of the public API that nothing in the site makes (clearQueue(),
\* stop(), start()) are left to the retry scenario. A stopped timer is a
\* timer that does not fire, which SpecST allows at every step.
NextST ==
  \/ Track(LimST) /\ UNCHANGED notST
  \/ TimerFires(LimST) /\ UNCHANGED notST
  \/ OnlineEvent(LimST) /\ UNCHANGED notST
  \/ OfflineEvent /\ UNCHANGED notST
  \/ PageHidden(LimST) /\ UNCHANGED notST
  \/ ManualFlush(LimST) /\ UNCHANGED notST
  \/ BeforeUnload /\ UNCHANGED notST
  \/ \E b \in inflight : FetchSucceeds(b) /\ UNCHANGED notST
  \/ \E b \in inflight : FetchFails(b) /\ UNCHANGED notST
  \/ \E b \in inflight : DelayElapsed(b) /\ UNCHANGED notST

NextRetry ==
  \/ Track(LimRetry) /\ UNCHANGED notST
  \/ TimerFires(LimRetry) /\ UNCHANGED notST
  \/ OnlineEvent(LimRetry) /\ UNCHANGED notST
  \/ OfflineEvent /\ UNCHANGED notST
  \/ PageHidden(LimRetry) /\ UNCHANGED notST
  \/ ManualFlush(LimRetry) /\ UNCHANGED notST
  \/ BeforeUnload /\ UNCHANGED notST
  \/ ClearQueue /\ UNCHANGED notST
  \/ Stop /\ UNCHANGED notST
  \/ Start /\ UNCHANGED notST
  \/ \E b \in inflight : FetchSucceeds(b) /\ UNCHANGED notST
  \/ \E b \in inflight : FetchFails(b) /\ UNCHANGED notST
  \/ \E b \in inflight : DelayElapsed(b) /\ UNCHANGED notST

\* The handlers of NextST with two asynchronous sends that may overlap.
NextBatch ==
  \/ Track(LimBatch) /\ UNCHANGED notST
  \/ TimerFires(LimBatch) /\ UNCHANGED notST
  \/ OnlineEvent(LimBatch) /\ UNCHANGED notST
  \/ OfflineEvent /\ UNCHANGED notST
  \/ PageHidden(LimBatch) /\ UNCHANGED notST
  \/ ManualFlush(LimBatch) /\ UNCHANGED notST
  \/ BeforeUnload /\ UNCHANGED notST
  \/ \E b \in inflight : FetchSucceeds(b) /\ UNCHANGED notST
  \/ \E b \in inflight : FetchFails(b) /\ UNCHANGED notST
  \/ \E b \in inflight : DelayElapsed(b) /\ UNCHANGED notST

\* The handlers while every send succeeds and stop() is not called.
NextLive ==
  \/ Track(LimLive) /\ UNCHANGED notST
  \/ TimerFires(LimLive) /\ UNCHANGED notST
  \/ OnlineEvent(LimLive) /\ UNCHANGED notST
  \/ OfflineEvent /\ UNCHANGED notST
  \/ PageHidden(LimLive) /\ UNCHANGED notST
  \/ ManualFlush(LimLive) /\ UNCHANGED notST
  \/ BeforeUnload /\ UNCHANGED notST
  \/ \E b \in inflight : FetchSucceeds(b) /\ UNCHANGED notST

SpecST == InitST /\ [][NextST]_vars

\* setInterval keeps calling its callback and every fetch settles.
SpecLive ==
  /\ InitST /\ [][NextLive]_vars
  /\ WF_vars(TimerFires(LimLive) /\ UNCHANGED notST)
  /\ WF_vars(\E b \in inflight : FetchSucceeds(b) /\ UNCHANGED notST)

SpecBatch == InitST /\ [][NextBatch]_vars

SpecRetry == InitST /\ [][NextRetry]_vars

(***************************************************************************)
(* ABTestManager: deterministic bucketing                                  *)
(*                                                                         *)
(* Strings are sequences of UTF-16 code units. A JavaScript number is kept *)
(* as two limbs [hi, lo] standing for hi * 65536 + lo with lo in 0..65535  *)
(* (hi carries the sign), so that 2^31 = Math.abs(-2^31) has a value.      *)
(***************************************************************************)

\* "null": what string concatenation makes of a null userId
NullText == <<110, 117, 108, 108>>
\* "variant_selection"
SelectionSalt == <<118, 97, 114, 105, 97, 110, 116, 95, 115, 101, 108, 101, 99,
                   116, 105, 111, 110>>

\* Visitor ids as createPrefixedId('user') makes them where crypto.randomUUID
\* is missing ('user_' and 20 base-36 digits). The name tells the value of
\* hash % 10000 the id leads to; UserMinInt hashes to the int32 -2^31.
\* "user_w8ot355tus3t0l10i6qa"
UserN0 == <<117, 115, 101, 114, 95, 119, 56, 111, 116, 51, 53, 53, 116, 117, 115,
            51, 116, 48, 108, 49, 48, 105, 54, 113, 97>>
\* "user_csh3tgdxai3rtudmt4cf"
UserN5000 == <<117, 115, 101, 114, 95, 99, 115, 104, 51, 116, 103, 100, 120, 97,
               105, 51, 114, 116, 117, 100, 109, 116, 52, 99, 102>>
\* "user_skgx7xu4wyro71amixy3"
UserN5001 == <<117, 115, 101, 114, 95, 115, 107, 103, 120, 55, 120, 117, 52,
               119, 121, 114, 111, 55, 49, 97, 109, 105, 120, 121, 51>>
\* "user_v18s363w9a747p1nz2u7"
UserN7500 == <<117, 115, 101, 114, 95, 118, 49, 56, 115, 51, 54, 51, 119, 57, 97,
               55, 52, 55, 112, 49, 110, 122, 50, 117, 55>>
\* "user_4fxaadk7ecl1k4nn5niw"
UserN9999 == <<117, 115, 101, 114, 95, 52, 102, 120, 97, 97, 100, 107, 55, 101,
               99, 108, 49, 107, 52, 110, 110, 53, 110, 105, 119>>
\* "user_m4m3iy2otq8t08xjeujk"
UserMinInt == <<117, 115, 101, 114, 95, 109, 52, 109, 51, 105, 121, 50, 111, 116,
                113, 56, 116, 48, 56, 120, 106, 101, 117, 106, 107>>

\* Session ids as createPrefixedId('ab') makes them.
\* "ab_n2lec51gm6vok88ykvbi"
SessionA == <<97, 98, 95, 110, 50, 108, 101, 99, 53, 49, 103, 109, 54, 118, 111,
              107, 56, 56, 121, 107, 118, 98, 105>>
\* "ab_nu3dg5mqnw2xlv4himie"
SessionB == <<97, 98, 95, 110, 117, 51, 100, 103, 53, 109, 113, 110, 119, 50, 120,
              108, 118, 52, 104, 105, 109, 105, 101>>
SessionIds == {SessionA, SessionB}

\* Bound of the model: the longest of the other ids localStorage may hold
\* (any non-empty string over IdChars: "0", "a", "z").
MaxIdLen == 2
IdChars == {48, 97, 122}
ShortIds == UNION {[1..k -> IdChars] : k \in 1..MaxIdLen}

UserIds ==
  {UserN0, UserN5000, UserN5001, UserN7500, UserN9999, UserMinInt} \cup ShortIds

\* this.experimentConfigs[...].variants as Object.entries lists them (weights
\* in percent), and two tables whose weights do not add up to 100. With
\* these tables the double-precision sums of weight / 100 compare with
\* n / 10000 exactly as the integers below do.
Variants(table) ==
  CASE table = "write_form_layout" ->
         <<[key |-> "control", weight |-> 50], [key |-> "compact", weight |-> 25],
           [key |-> "wizard", weight |-> 25]>>
    [] table = "homepage_content_order" ->
         <<[key |-> "control", weight |-> 40], [key |-> "photos_first", weight |-> 30],
           [key |-> "stories_first", weight |-> 30]>>
    [] table = "reading_experience" ->
         <<[key |-> "control", weight |-> 50], [key |-> "progress_bar", weight |-> 25],
           [key |-> "estimated_time", weight |-> 25]>>
    [] table = "photo_gallery_layout" ->
         <<[key |-> "control", weight |-> 34], [key |-> "masonry", weight |-> 33],
           [key |-> "carousel", weight |-> 33]>>
    [] table = "short_by_25" ->
         <<[key |-> "control", weight |-> 50], [key |-> "compact", weight |-> 25]>>
    [] table = "short_by_20" ->
         <<[key |-> "control", weight |-> 60], [key |-> "compact", weight |-> 20]>>

Tables == {"write_form_layout", "homepage_content_order", "reading_experience",
           "photo_gallery_layout", "short_by_25", "short_by_20"}

\* ---- 32-bit arithmetic of hashString ----

\* The 32-bit pattern of x: both limbs in 0..65535.
Bits32(x) == [hi |-> x.hi % 65536, lo |-> x.lo]

\* ToInt32 of a 32-bit pattern (what hash & hash leaves): hi in -32768..32767.
ToInt32(u) == [hi |-> IF u.hi >= 32768 THEN u.hi - 65536 ELSE u.hi, lo |-> u.lo]

\* hash << 5, as a 32-bit pattern
Shl5(u) ==
  [hi |-> (u.hi * 32 + (u.lo * 32) \div 65536) % 65536, lo |-> (u.lo * 32) % 65536]

\* a - b and a + char modulo 2^32 (the wrap that & applies to the exact
\* double (hash << 5) - hash + char)
Sub32(a, b) ==
  [hi |-> (a.hi - b.hi - (IF a.lo < b.lo THEN 1 ELSE 0)) % 65536,
   lo |-> (a.lo - b.lo) % 65536]
Add32(a, char) ==
  [hi |-> (a.hi + (a.lo + char) \div 65536) % 65536, lo |-> (a.lo + char) % 65536]

\* -x for a number in limbs
Negate(x) ==
  IF x.lo = 0 THEN [hi |-> -x.hi, lo |-> 0]
  ELSE [hi |-> -x.hi - 1, lo |-> 65536 - x.lo]

MathAbs_Missing(x) == x
\* Math.abs(hash): on doubles, so Math.abs(-2^31) is 2^31
MathAbs(x) == IF x.hi < 0 THEN Negate(x) ELSE x

\* one iteration of the loop of hashString
HashStep(hash, char) ==
  ToInt32(Add32(Sub32(Shl5(Bits32(hash)), Bits32(hash)), char))

RECURSIVE HashLoop(_, _, _)
\* the for loop of hashString from index i on; each iteration's value is
\* computed (an int32) before the next iteration starts
HashLoop(str, i, hash) ==
  IF i > Len(str) THEN hash
  ELSE LET next == HashStep(hash, str[i])
       IN CASE next.hi \in -32768..32767 /\ next.lo \in 0..65535 ->
                 HashLoop(str, i + 1, next)

\* hashString(str)
hashString(str) == MathAbs(HashLoop(str, 1, [hi |-> 0, lo |-> 0]))

\* x % m of JavaScript for a number in limbs: the sign is the dividend's
RemNonNeg(x, m) == ((x.hi % m) * (65536 % m) + x.lo) % m
JsRem(x, m) == IF x.hi < 0 THEN -RemNonNeg(Negate(x), m) ELSE RemNonNeg(x, m)

\* this.userId + 'variant_selection'
Concat(id, text) == (IF id = NullId THEN NullText ELSE id) \o text

\* hash % 10000: randomValue is this number over 10000
RandomValueTimes10000(hash) == JsRem(hash, 10000)

Covers_Strict(n, cumulativeWeight) == n < cumulativeWeight * 100
\* if (randomValue <= cumulativeWeight), both sides times 10000
\* (cumulativeWeight in percent)
Covers(n, cumulativeWeight) == n <= cumulativeWeight * 100

FallbackVariant_Last(variantEntries) == variantEntries[Len(variantEntries)]
\* after the loop: const [firstKey, firstVariant] = variantEntries[0]
FallbackVariant(variantEntries) == variantEntries[1]

RECURSIVE WalkVariants_NoSum(_, _, _, _)
WalkVariants_NoSum(variantEntries, i, cumulativeWeight, n) ==
  IF i > Len(variantEntries) THEN FallbackVariant(variantEntries)
  ELSE IF Covers(n, variantEntries[i].weight)
         THEN variantEntries[i]
         ELSE WalkVariants_NoSum(variantEntries, i + 1, cumulativeWeight, n)

RECURSIVE WalkVariants(_, _, _, _)
\* the for loop over variantEntries, then the fallback
WalkVariants(variantEntries, i, cumulativeWeight, n) ==
  IF i > Len(variantEntries) THEN FallbackVariant(variantEntries)
  ELSE IF Covers(n, cumulativeWeight + variantEntries[i].weight)
         THEN variantEntries[i]
         ELSE WalkVariants(variantEntries, i + 1,
                           cumulativeWeight + variantEntries[i].weight, n)

\* hashString is a pure function of the string: its graph on the strings
\* id + 'variant_selection', for the ids the manager may hold.
SelectionHashes ==
  {<<id, hashString(Concat(id, SelectionSalt))>> :
     id \in UserIds \cup SessionIds \cup {NullId}}
\* const hash = this.hashString(id + 'variant_selection')
SelectionHash(id) == (CHOOSE p \in SelectionHashes : p[1] = id)[2]

selectVariantForUser_BySession(variants) ==
  WalkVariants(variants, 1, 0, RandomValueTimes10000(SelectionHash(abSessionId)))
\* selectVariantForUser(variants)
selectVariantForUser(variants) ==
  WalkVariants(variants, 1, 0, RandomValueTimes10000(SelectionHash(abUserId)))

\* getUserId() with localStorage working (ok) or throwing; fresh is the id
\* createPrefixedId('user') would make.
GetUserId(ok, fresh) ==
  IF ~ok THEN NullId
  ELSE IF storedUserId = NoItem THEN fresh ELSE storedUserId

\* A page load: new ABTestManager() draws a session id and reads (or makes
\* and stores) the visitor id.
ABPageLoad ==
  \E ok \in BOOLEAN, session \in SessionIds,
     fresh \in (IF storedUserId = NoItem THEN UserIds ELSE {storedUserId}) :
    /\ abSessionId' = session
    /\ abUserId' = GetUserId(ok, fresh)
    /\ storedUserId' = IF ok /\ storedUserId = NoItem THEN fresh ELSE storedUserId
    /\ UNCHANGED <<lastSel, refSel>>

\* A call of selectVariantForUser(variants) on one of the tables. lastSel
\* records the call; refSel keeps one call of the run for comparison.
ABSelectVariant ==
  \E table \in Tables :
    LET hash == SelectionHash(abUserId)
        call == [called |-> TRUE, userId |-> abUserId, sessionId |-> abSessionId,
                 table |-> table, key |-> selectVariantForUser(Variants(table)).key,
                 hash |-> hash, n |-> RandomValueTimes10000(hash)]
    IN /\ lastSel' = call
       /\ refSel' \in (IF refSel.called THEN {refSel} ELSE {refSel, call})
       /\ UNCHANGED <<abUserId, abSessionId, storedUserId>>

\* The state after the first new ABTestManager().
InitAB ==
  /\ storedUserId \in UserIds \cup {NoItem}
  /\ abUserId \in (IF storedUserId = NoItem THEN {NullId} ELSE {storedUserId, NullId})
  /\ abSessionId \in SessionIds
  /\ lastSel = NoSel
  /\ refSel = NoSel
  /\ Idle("AB")

NextAB ==
  \/ ABPageLoad /\ UNCHANGED notAB
  \/ ABSelectVariant /\ UNCHANGED notAB

SpecAB == InitAB /\ [][NextAB]_vars

(***************************************************************************)
(* ABTestManager: the distribution of the values of hash % 10000           *)
(***************************************************************************)

\* hash % 10000 takes the values 0 .. Buckets - 1 (site.js:338)
Buckets == 10000

\* The experiments of this.experimentConfigs
ConfiguredTables == {"write_form_layout", "homepage_content_order",
                     "reading_experience", "photo_gallery_layout"}

\* The position in variantEntries of the entry selectVariantForUser returns
\* (the keys of a table are distinct).
PositionOf(variantEntries, variant) ==
  CHOOSE i \in 1..Len(variantEntries) : variantEntries[i].key = variant.key

\* The loop and fallback of selectVariantForUser run on the next value of
\* hash % 10000; the variant returned is counted.
DistSelect ==
  /\ distN < Buckets
  /\ LET variantEntries == Variants(distTable)
         i == PositionOf(variantEntries, WalkVariants(variantEntries, 1, 0, distN))
     IN distCount' = [distCount EXCEPT ![i] = @ + 1]
  /\ distN' = distN + 1
  /\ UNCHANGED distTable

\* One sweep per configured experiment, nothing counted yet.
InitDist ==
  /\ distTable \in ConfiguredTables
  /\ distN = 0
  /\ distCount = [i \in 1..Len(Variants(distTable)) |-> 0]
  /\ Idle("Dist")

NextDist == DistSelect /\ UNCHANGED notDist

SpecDist == InitDist /\ [][NextDist]_vars

(***************************************************************************)
(* ABTestManager: persisted assignments                                    *)
(***************************************************************************)

\* Bound of the model: page loads in one run.
MaxPageLoads == 3

\* this.userAssignments.get(experimentId) on a set of assignments
HasAssignment(assignments, experimentId) ==
  \E a \in assignments : a.experimentId = experimentId
GetAssignment(assignments, experimentId) ==
  CHOOSE a \in assignments : a.experimentId = experimentId

\* assignUserToVariant(experimentId, config) of the page load numbered now,
\* on the map userAssignments: the assignment it leaves in the map.
AssignmentFor(userAssignments, experimentId, now) ==
  IF HasAssignment(userAssignments, experimentId)
    THEN GetAssignment(userAssignments, experimentId)
    ELSE [experimentId |-> experimentId,
          variant |-> selectVariantForUser(Variants(experimentId)).key,
          assignedAt |-> now]

OpenTab(userAssignments) == [open |-> TRUE, userAssignments |-> userAssignments]

\* A page load in a tab: new ABTestManager() -> init(): loadUserAssignments()
\* copies the stored assignments, initializePageExperiments() runs
\* assignUserToVariant for the experiment that targets the page (each page is
\* the target of at most one experiment; "none" when no experiment runs).
AsgPageLoad(tab, experimentId) ==
  /\ ~asgTabs[tab].open
  /\ asgLoads < MaxPageLoads
  /\ asgLoads' = asgLoads + 1
  /\ IF experimentId = "none"
       THEN /\ asgTabs' = [asgTabs EXCEPT ![tab] = OpenTab(asgStore)]
            /\ asgLast' = NoLoad
       ELSE LET isNew == ~HasAssignment(asgStore, experimentId)
                assignment == AssignmentFor(asgStore, experimentId, asgLoads + 1)
            IN /\ asgTabs' = [asgTabs EXCEPT
                                ![tab] = OpenTab(asgStore \cup {assignment})]
               /\ asgLast' = [loaded |-> TRUE, experimentId |-> experimentId,
                              stored |-> (IF isNew THEN {}
                                          ELSE {GetAssignment(asgStore, experimentId)}),
                              selected |-> isNew, emitted |-> isNew,
                              applied |-> assignment]
  /\ UNCHANGED <<asgStore, asgKept>>

SavedAssignments_Merged(stored, userAssignments) ==
  userAssignments \cup
  {a \in stored : ~HasAssignment(userAssignments, a.experimentId)}

\* saveUserAssignments(): the value of 'ab_test_assignments' after setItem,
\* built from this.userAssignments alone.
SavedAssignments(stored, userAssignments) == userAssignments

\* The beforeunload listener of a page: saveUserAssignments() writes the
\* page's whole map over the stored one.
AsgUnload(tab) ==
  /\ asgTabs[tab].open
  /\ asgStore' = SavedAssignments(asgStore, asgTabs[tab].userAssignments)
  /\ asgTabs' = [asgTabs EXCEPT ![tab] = ClosedTab]
  /\ LET made == {a \in asgTabs[tab].userAssignments :
                    /\ ~HasAssignment(asgStore, a.experimentId)
                    /\ ~HasAssignment(asgKept, a.experimentId)}
     IN /\ asgKept' = asgKept \cup made
        /\ asgLast' = IF made = {} THEN asgLast ELSE NoLoad
  /\ UNCHANGED asgLoads

\* The visitor's first page load has not happened yet; local storage works
\* and holds the visitor id.
InitAsg ==
  /\ IdleAsg
  /\ abUserId \in {UserN0, UserN7500}
  /\ storedUserId = abUserId
  /\ abSessionId = SessionA
  /\ lastSel = NoSel
  /\ refSel = NoSel
  /\ Idle("Asg")

NextAsg ==
  \/ \E tab \in Tabs, experimentId \in ConfiguredTables \cup {"none"} :
        AsgPageLoad(tab, experimentId) /\ UNCHANGED notAsg
  \/ \E tab \in Tabs : AsgUnload(tab) /\ UNCHANGED notAsg

SpecAssign == InitAsg /\ [][NextAsg]_vars

(***************************************************************************)
(* Likes endpoint (src/unnamed/part_001)                                   *)
(*                                                                         *)
(* One handler invocation is a sequence of steps separated by its awaits:  *)
(* the code up to the first supabaseRequest, then one step per request     *)
(* that resolves. Invocations interleave between their awaits.             *)
(***************************************************************************)

\* Bound of the model: handler invocations in one run.
MaxLikeRequests == 3

\* req.query.id: absent, a string (code units; 47 is "/"), or an array (the
\* parameter given twice).
UndefinedId == [kind |-> "undefined"]
ArrayId == [kind |-> "array"]
StringId(text) == [kind |-> "string", text |-> text]
QueryIds ==
  {UndefinedId, ArrayId} \cup {StringId(t) : t \in {<<>>, <<97>>, <<47, 97>>, <<98>>}}
Methods == {"GET", "POST", "OPTIONS", "DELETE"}

\* The page ids with a ledger: "a" and "b"
PageIds == {<<97>>, <<98>>}

\* if (!id)
IsFalsyId(id) == id.kind = "undefined" \/ (id.kind = "string" /\ id.text = <<>>)

\* const cleanId = id.startsWith('/') ? id.substring(1) : id
CleanId(text) == IF Len(text) > 0 /\ text[1] = 47 THEN Tail(text) ELSE text

\* GET likes?page_id=eq.<pageId>: the rows the store returns
Rows(store, pageId) == {row \in store : row.page_id = pageId}

\* data.length > 0 ? data[0].count : 0
CountOf(data) == IF data # {} THEN (CHOOSE row \in data : TRUE).count ELSE 0

GetLikeCount_Rethrows(outcome, data) ==
  IF outcome = "ok" THEN [threw |-> FALSE, count |-> CountOf(data)]
  ELSE [threw |-> TRUE, count |-> 0]
\* getLikeCount: the count read, or 0 when supabaseRequest threw (the catch
\* block returns 0)
GetLikeCount(outcome, data) ==
  IF outcome = "ok" THEN [threw |-> FALSE, count |-> CountOf(data)]
  ELSE [threw |-> FALSE, count |-> 0]

NewCount_NoIncrement(existing) == CountOf(existing)
\* incrementLike: const newCount = existing[0].count + 1
NewCount(existing) == CountOf(existing) + 1

ApplyPatch_Increment(store, pageId, newCount) ==
  {IF row.page_id = pageId THEN [row EXCEPT !.count = @ + 1] ELSE row : row \in store}
\* PATCH likes?page_id=eq.<pageId> with body {count: newCount}
ApplyPatch(store, pageId, newCount) ==
  {IF row.page_id = pageId THEN [row EXCEPT !.count = newCount] ELSE row : row \in store}

\* POST likes with body {page_id, count: 1}, on a store with no row for the page
ApplyInsert(store, pageId) == store \cup {[page_id |-> pageId, count |-> 1]}

\* What an invocation leaves in likeLast when it ends. outcome is "responded"
\* (res.status(status) with a body) or "unhandled" (an exception left the
\* handler); count is the count of the body, -1 when the body has none;
\* stage is where it ended: "entry" (before any supabaseRequest) or the
\* request it was waiting on.
Ended(r, outcome, status, count) ==
  [ended |-> TRUE, method |-> r.method, cleanId |-> r.cleanId, outcome |-> outcome,
   status |-> status, count |-> count, readOk |-> r.readOk,
   overlapped |-> r.overlapped, before |-> r.before, hadRow |-> r.hadRow,
   stage |-> r.phase]

\* An invocation that ends before its first await.
Immediate(method, outcome, status) ==
  /\ likeLast' = Ended([method |-> method, cleanId |-> <<>>, readOk |-> FALSE,
                        overlapped |-> FALSE, before |-> 0, hadRow |-> FALSE,
                        phase |-> "entry"],
                       outcome, status, -1)
  /\ UNCHANGED <<likeReqs, likeLedger>>

\* The ledger after a POST for pageId ended.
LedgerAfterPost(r, status) ==
  IF r.cleanId \in PageIds
    THEN [likeLedger EXCEPT
            ![r.cleanId].posts = IF status = 200 THEN @ + 1 ELSE @,
            ![r.cleanId].clean = @ /\ status = 200 /\ ~r.overlapped]
    ELSE likeLedger

\* handler(req, res) up to its first await: CORS headers, OPTIONS, the
\* environment check, the id check, cleanId, and the first supabaseRequest
\* of getLikeCount / incrementLike.
LikeInvoke(method, id) ==
  /\ likeStarted < MaxLikeRequests
  /\ likeStarted' = likeStarted + 1
  /\ IF method = "OPTIONS" THEN Immediate(method, "responded", 200)
     ELSE IF ~likeConfigured THEN Immediate(method, "responded", 500)
     ELSE IF IsFalsyId(id) THEN Immediate(method, "responded", 400)
     ELSE IF id.kind = "array" THEN Immediate(method, "unhandled", 0)
     ELSE IF method \notin {"GET", "POST"} THEN Immediate(method, "responded", 405)
     ELSE LET cleanId == CleanId(id.text)
              others == {o \in likeReqs : o.cleanId = cleanId}
              r == [rid |-> likeStarted + 1, method |-> method, cleanId |-> cleanId,
                    phase |-> "select", existing |-> {}, readOk |-> FALSE,
                    overlapped |-> others # {},
                    before |-> CountOf(Rows(likeStore, cleanId)),
                    hadRow |-> Rows(likeStore, cleanId) # {}]
          IN /\ likeReqs' = {IF o \in others THEN [o EXCEPT !.overlapped = TRUE] ELSE o :
                               o \in likeReqs} \cup {r}
             /\ UNCHANGED <<likeLast, likeLedger>>
  /\ UNCHANGED <<likeConfigured, likeStore>>

\* The select of getLikeCount / incrementLike resolves (outcome "ok") or
\* supabaseRequest throws (network error or !response.ok).
LikeSelect(r, outcome) ==
  /\ r \in likeReqs /\ r.phase = "select"
  /\ LET data == Rows(likeStore, r.cleanId)
         r1 == [r EXCEPT !.readOk = (outcome = "ok")]
     IN IF r.method = "GET"
          THEN LET got == GetLikeCount(outcome, data)
               IN /\ likeReqs' = likeReqs \ {r}
                  /\ likeLast' = IF got.threw THEN Ended(r1, "responded", 500, -1)
                                 ELSE Ended(r1, "responded", 200, got.count)
                  /\ UNCHANGED likeLedger
          ELSE IF outcome = "ok"
                 THEN /\ likeReqs' = (likeReqs \ {r}) \cup
                           {[r1 EXCEPT !.existing = data,
                                       !.phase = IF data # {} THEN "patch" ELSE "insert"]}
                      /\ UNCHANGED <<likeLast, likeLedger>>
                 ELSE /\ likeReqs' = likeReqs \ {r}
                      /\ likeLast' = Ended(r1, "responded", 500, -1)
                      /\ likeLedger' = LedgerAfterPost(r, 500)
  /\ UNCHANGED <<likeConfigured, likeStore, likeStarted>>

\* The PATCH or the insert of incrementLike resolves. outcome: "ok", "error"
\* (the request failed, nothing written) or "lost" (written, but the response
\* did not arrive or did not parse, so supabaseRequest throws). An insert for
\* a page that got a row meanwhile is refused when the table has a unique
\* page_id (unique), and otherwise adds a row behind the one reads return.
LikeWrite(r, outcome, unique) ==
  /\ r \in likeReqs /\ r.phase \in {"patch", "insert"}
  /\ LET newCount == IF r.phase = "patch" THEN NewCount(r.existing) ELSE 1
         refused == /\ r.phase = "insert" /\ unique
                    /\ Rows(likeStore, r.cleanId) # {}
         applied == outcome # "error" /\ ~refused
         status == IF outcome = "ok" /\ ~refused THEN 200 ELSE 500
     IN /\ likeStore' =
             IF ~applied THEN likeStore
             ELSE IF r.phase = "patch" THEN ApplyPatch(likeStore, r.cleanId, newCount)
             ELSE IF Rows(likeStore, r.cleanId) # {} THEN likeStore
             ELSE ApplyInsert(likeStore, r.cleanId)
        /\ likeReqs' = likeReqs \ {r}
        /\ likeLast' = Ended(r, "responded", status,
                             IF status = 200 THEN newCount ELSE -1)
        /\ likeLedger' = LedgerAfterPost(r, status)
  /\ UNCHANGED <<likeConfigured, likeStarted>>

\* The deployment, with or without its environment variables, and a likes
\* table in which a page has no row or a row with some count.
InitLike ==
  /\ likeConfigured \in BOOLEAN
  /\ likeStore \in {rows \in SUBSET {[page_id |-> p, count |-> 3] : p \in PageIds} : TRUE}
  /\ likeReqs = {}
  /\ likeStarted = 0
  /\ likeLast = NoRequest
  /\ likeLedger = [p \in PageIds |->
                     [initial |-> CountOf(Rows(likeStore, p)), posts |-> 0,
                      clean |-> TRUE]]
  /\ Idle("Like")

NextLike ==
  \/ \E method \in Methods, id \in QueryIds :
        LikeInvoke(method, id) /\ UNCHANGED notLike
  \/ \E r \in likeReqs, outcome \in {"ok", "error"} :
        LikeSelect(r, outcome) /\ UNCHANGED notLike
  \/ \E r \in likeReqs, outcome \in {"ok", "error", "lost"}, unique \in BOOLEAN :
        LikeWrite(r, outcome, unique) /\ UNCHANGED notLike

SpecLike == InitLike /\ [][NextLike]_vars

(***************************************************************************)
(* Post and note creation endpoints (src/unnamed/part_002, part_003)       *)
(*                                                                         *)
(* The two handlers share no state; an invocation is the code up to the    *)
(* first fetch of commitToGitHub, then one step per fetch that settles.    *)
(***************************************************************************)

\* Bound of the model: handler invocations in one run.
MaxWriteRequests == 2

\* process.env.WRITE_ACCESS_KEY when it is set: "k"
WRITE_ACCESS_KEY == <<107>>

\* JSON values of a header or a body field (strings as code units, 32 is the
\* space): undefined, a string, a non-zero number, an object whose toString
\* is not callable (as in {"toString": 0}), an array.
Undefined == [kind |-> "undefined"]
Str(text) == [kind |-> "string", text |-> text]
Number5 == [kind |-> "number"]
NoToString == [kind |-> "object"]
Arr(items) == [kind |-> "array", items |-> items]

FieldValues == {Undefined, Number5, NoToString} \cup {Str(t) : t \in {<<>>, <<32>>, <<97>>}}
TagsValues ==
  {Undefined, Str(<<97>>), Arr(<<>>), Arr(<<Str(<<32>>)>>), Arr(<<Str(<<97>>)>>),
   Arr(<<Str(<<97>>), Number5>>)}
AccessKeys == {Undefined, Str(<<>>), Str(<<120>>), Str(WRITE_ACCESS_KEY)}
WriteMethods == {"OPTIONS", "GET", "POST"}

\* req.body: undefined when the request has none, else the parsed object.
NoBody == [kind |-> "undefined"]
PostBody(title, body) == [kind |-> "object", title |-> title, body |-> body]
NoteBody(title, content, tags) ==
  [kind |-> "object", title |-> title, content |-> content, tags |-> tags]
PostBodies == {NoBody} \cup {PostBody(t, b) : t \in FieldValues, b \in FieldValues}
NoteBodies ==
  {NoBody} \cup {NoteBody(t, c, g) : t \in FieldValues, c \in FieldValues, g \in TagsValues}
Bodies(endpoint) == IF endpoint = "post" THEN PostBodies ELSE NoteBodies

\* !!value
Truthy(value) == value.kind # "undefined" /\ value # Str(<<>>)

\* String.prototype.trim
RECURSIVE TrimStart(_)
TrimStart(text) ==
  IF text # <<>> /\ Head(text) = 32 THEN TrimStart(Tail(text)) ELSE text
RECURSIVE TrimEnd(_)
TrimEnd(text) ==
  IF text # <<>> /\ text[Len(text)] = 32
    THEN TrimEnd(SubSeq(text, 1, Len(text) - 1)) ELSE text
Trim(text) == TrimEnd(TrimStart(text))

\* String(value): throws a TypeError for an object that has no callable
\* toString.
ToStringOf(value) ==
  CASE value.kind = "string" -> [threw |-> FALSE, text |-> value.text]
    [] value.kind = "number" -> [threw |-> FALSE, text |-> <<53>>]
    [] value.kind = "object" -> [threw |-> TRUE]
    [] OTHER -> [threw |-> FALSE, text |-> <<117>>]

\* value.trim(): a TypeError unless value is a string.
TrimMethod(value) ==
  IF value.kind = "string" THEN [threw |-> FALSE, text |-> Trim(value.text)]
  ELSE [threw |-> TRUE]

\* The first check of a sequence that does not pass decides.
RECURSIVE FirstFailure(_)
FirstFailure(checks) ==
  IF checks = <<>> THEN "pass"
  ELSE IF Head(checks) # "pass" THEN Head(checks)
  ELSE FirstFailure(Tail(checks))

\* post: if (!title || !String(title).trim()), the same for body
PostRequired(value) ==
  IF ~Truthy(value) THEN "reject"
  ELSE LET s == ToStringOf(value)
       IN IF s.threw THEN "throw"
          ELSE IF Trim(s.text) = <<>> THEN "reject" ELSE "pass"

\* note: if (!title || !title.trim()), the same for content
NoteRequired(value) ==
  IF ~Truthy(value) THEN "reject"
  ELSE LET s == TrimMethod(value)
       IN IF s.threw THEN "throw"
          ELSE IF s.text = <<>> THEN "reject" ELSE "pass"

\* note: the tags check, tags.map(tag => tag.trim()) and the check of
\* cleanedTags
NoteTags(tags) ==
  IF ~Truthy(tags) \/ tags.kind # "array" \/ Len(tags.items) = 0 THEN "reject"
  ELSE IF \E i \in 1..Len(tags.items) : TrimMethod(tags.items[i]).threw THEN "throw"
  ELSE IF \A i \in 1..Len(tags.items) : TrimMethod(tags.items[i]).text = <<>>
         THEN "reject"
  ELSE "pass"

\* post: lines 34-76, from the destructuring of req.body || {} up to the try
PostValidation(reqBody) ==
  LET b == IF reqBody.kind = "undefined" THEN PostBody(Undefined, Undefined)
           ELSE reqBody
  IN FirstFailure(<<PostRequired(b.title), PostRequired(b.body)>>)

\* note: lines 35-57, from the destructuring of req.body up to the try
NoteValidation(reqBody) ==
  IF reqBody.kind = "undefined" THEN "throw"
  ELSE FirstFailure(<<NoteRequired(reqBody.title), NoteRequired(reqBody.content),
                      NoteTags(reqBody.tags)>>)

Validation(endpoint, reqBody) ==
  IF endpoint = "post" THEN PostValidation(reqBody) ELSE NoteValidation(reqBody)

KeyRejected_EmptyOnly(accessKey, key) == ~Truthy(accessKey)

\* if (!accessKey || accessKey !== WRITE_ACCESS_KEY)
KeyRejected(accessKey, key) == ~Truthy(accessKey) \/ accessKey # Str(key)

\* How the PUT of commitToGitHub can settle: response.ok, a failure status,
\* a rejected fetch, or a response.ok whose body does not parse.
PutOk == [kind |-> "ok"]
PutStatus(status) == [kind |-> "http", status |-> status]
PutRejected == [kind |-> "network"]
PutUnreadable == [kind |-> "unreadable"]
PutResults ==
  {PutOk, PutRejected, PutUnreadable} \cup
  {PutStatus(s) : s \in {403, 404, 409, 422, 500}}

\* error.status in the catch block (0 for undefined)
ErrorStatus(result) == IF result.kind = "http" THEN result.status ELSE 0

CatchResponse_Passthrough(errorStatus, nodeEnv) ==
  [status |-> IF errorStatus \in {422, 403} THEN errorStatus ELSE 500,
   details |-> nodeEnv = "development"]

\* catch (error): the status and whether the body carries details
CatchResponse(errorStatus, nodeEnv) ==
  IF errorStatus = 422 THEN [status |-> 400, details |-> FALSE]
  ELSE IF errorStatus = 403 THEN [status |-> 403, details |-> FALSE]
  ELSE [status |-> 500, details |-> nodeEnv = "development"]

\* The invocation inv as it is recorded when it ends. outcome is "responded"
\* or "unhandled" (an exception left the handler, no response was sent);
\* requests is the number of requests it made to GitHub.
Finished(inv, stage, outcome, status, details, result, requests) ==
  [ended |-> TRUE, endpoint |-> inv.endpoint, method |-> inv.method,
   accessKey |-> inv.accessKey, body |-> inv.body, stage |-> stage,
   outcome |-> outcome, status |-> status, details |-> details,
   result |-> result, requests |-> requests]

\* An invocation that ends before its first await.
EndsAtOnce(inv, outcome, status) ==
  /\ UNCHANGED <<writeReq, github>>
  /\ writeLast' = Finished(inv, "entry", outcome, status, FALSE, PutOk,
                           github' - github)

\* handler(req, res) up to the first fetch of commitToGitHub: CORS headers,
\* OPTIONS, the method check, the environment check, the access key check,
\* the validation of the body, and the fetch that looks for the file.
WriteInvoke(endpoint, method, accessKey, body) ==
  /\ writeReq = NoWrite
  /\ writeStarted < MaxWriteRequests
  /\ writeStarted' = writeStarted + 1
  /\ LET inv == [endpoint |-> endpoint, method |-> method,
                 accessKey |-> accessKey, body |-> body]
         valid == Validation(endpoint, body)
     IN IF method = "OPTIONS" THEN EndsAtOnce(inv, "responded", 200)
        ELSE IF method # "POST" THEN EndsAtOnce(inv, "responded", 405)
        ELSE IF ~writeEnv.configured THEN EndsAtOnce(inv, "responded", 500)
        ELSE IF KeyRejected(accessKey, WRITE_ACCESS_KEY)
               THEN EndsAtOnce(inv, "responded", 401)
        ELSE IF valid = "reject" THEN EndsAtOnce(inv, "responded", 400)
        ELSE IF valid = "throw" THEN EndsAtOnce(inv, "unhandled", 0)
        ELSE /\ writeReq' = [pending |-> TRUE, inv |-> inv, phase |-> "check",
                             githubBefore |-> github]
             /\ github' = github + 1
             /\ UNCHANGED writeLast
  /\ UNCHANGED writeEnv

\* commitToGitHub: the fetch that looks for the file settles (its failure is
\* swallowed) and the PUT is sent.
WriteChecked ==
  /\ writeReq.pending /\ writeReq.phase = "check"
  /\ writeReq' = [writeReq EXCEPT !.phase = "put"]
  /\ github' = github + 1
  /\ UNCHANGED <<writeEnv, writeStarted, writeLast>>

\* commitToGitHub: the PUT settles; the handler answers 200, or its catch
\* block answers for the error.
WritePut(result) ==
  /\ writeReq.pending /\ writeReq.phase = "put"
  /\ LET answer == IF result = PutOk THEN [status |-> 200, details |-> FALSE]
                   ELSE CatchResponse(ErrorStatus(result), writeEnv.NODE_ENV)
     IN writeLast' = Finished(writeReq.inv, "put", "responded", answer.status,
                              answer.details, result,
                              github - writeReq.githubBefore)
  /\ writeReq' = NoWrite
  /\ UNCHANGED <<writeEnv, writeStarted, github>>

\* A deployment with or without its three environment variables, in
\* development or production.
InitWrite ==
  /\ writeEnv \in [configured : BOOLEAN, NODE_ENV : {"development", "production"}]
  /\ writeReq = NoWrite
  /\ writeStarted = 0
  /\ github = 0
  /\ writeLast = NoInvocation
  /\ Idle("Write")

\* A request of another method ends before its header and body are read.
NextWrite ==
  \/ \E endpoint \in {"post", "note"}, method \in WriteMethods \ {"POST"} :
       WriteInvoke(endpoint, method, Undefined, NoBody) /\ UNCHANGED notWrite
  \/ \E endpoint \in {"post", "note"}, accessKey \in AccessKeys :
       \E body \in Bodies(endpoint) :
         WriteInvoke(endpoint, "POST", accessKey, body) /\ UNCHANGED notWrite
  \/ WriteChecked /\ UNCHANGED notWrite
  \/ \E result \in PutResults : WritePut(result) /\ UNCHANGED notWrite

SpecWrite == InitWrite /\ [][NextWrite]_vars

(***************************************************************************)
(* Construction of the client objects                                      *)
(*                                                                         *)
(* Each DOMContentLoaded listener constructs one object: new               *)
(* ABTestManager() (site.js:858-859), new JourneyTracker()                 *)
(* (journey-tracking.js:773), new ServerTracker() (server-tracking.js:308).*)
(* The model follows the accesses to localStorage the constructors make    *)
(* and whether each is inside a try block.                                 *)
(***************************************************************************)

\* Bound of the model: page loads in one run.
MaxBootLoads == 2

StorageModes == {"works", "readonly", "throws"}
Globals == {"abTestManager", "journeyTracker", "serverTracker"}

\* localStorage.getItem: throws when the storage is unavailable.
GetItem(mode, item) ==
  IF mode = "throws" THEN [threw |-> TRUE] ELSE [threw |-> FALSE, value |-> item]

\* localStorage.setItem: throws when the storage is unavailable or refuses
\* writes.
SetItemThrows(mode) == mode \in {"throws", "readonly"}

\* getUserId / generateOrGetUserId, the same code in the three classes: the
\* id returned and the item 'user-journey-id' afterwards. Everything is in
\* one try block whose catch returns null.
UserIdUnder(mode, stored, fresh) ==
  LET got == GetItem(mode, stored)
  IN IF got.threw THEN [userId |-> NullId, stored |-> stored]
     ELSE IF got.value # NoItem THEN [userId |-> got.value, stored |-> stored]
     ELSE IF SetItemThrows(mode) THEN [userId |-> NullId, stored |-> stored]
     ELSE [userId |-> fresh, stored |-> fresh]

\* getVisitHistory().length: the read is in a try block whose catch returns [].
VisitHistoryLength(mode, visits) ==
  LET got == GetItem(mode, visits) IN IF got.threw THEN 0 ELSE got.value

\* parseInt(localStorage.getItem('photo_views_count') || '0'): the read is
\* not in a try block (0 stands for the absent item).
PhotoViews(mode, photoViewsCount) == GetItem(mode, photoViewsCount)

\* getUserSegments, the part that depends on localStorage: the segments, or
\* the exception of the unguarded read.
getUserSegments(mode, items) ==
  LET visits == VisitHistoryLength(mode, items.visits)
      photoViews == PhotoViews(mode, items.photoViewsCount)
  IN IF photoViews.threw THEN [threw |-> TRUE]
     ELSE [threw |-> FALSE,
           segments |->
             (IF visits > 10 THEN {"frequent_visitor"} ELSE {}) \cup
             (IF photoViews.value > 20 THEN {"photo_enthusiast"}
              ELSE IF photoViews.value > 5 THEN {"casual_browser"} ELSE {})]

NotConstructed == [state |-> "none"]
Constructed(userId, segments) ==
  [state |-> "constructed", userId |-> userId, segments |-> segments]
ConstructorThrew(userId) == [state |-> "threw", userId |-> userId]

\* new ABTestManager(): getUserId, then init with loadUserAssignments (its
\* read is in a try block) and initializePageExperiments, which calls
\* getUserSegments first. An exception leaves the constructor and the
\* listener, and window.abTestManager is never set.
ConstructABTestManager(fresh) ==
  /\ pageObjects["abTestManager"] = NotConstructed
  /\ LET id == UserIdUnder(storageMode, storageItems.userJourneyId, fresh)
         userSegments == getUserSegments(storageMode, storageItems)
     IN /\ storageItems' = [storageItems EXCEPT !.userJourneyId = id.stored]
        /\ pageObjects' =
             [pageObjects EXCEPT !["abTestManager"] =
                IF userSegments.threw THEN ConstructorThrew(id.userId)
                ELSE Constructed(id.userId, userSegments.segments)]
  /\ UNCHANGED <<storageMode, pageLoads>>

\* new JourneyTracker(): generateOrGetUserId, then init; every read of
\* localStorage it makes (getPreviousPageFromHistory, getVisitHistory) is in
\* a try block.
ConstructJourneyTracker(fresh) ==
  /\ pageObjects["journeyTracker"] = NotConstructed
  /\ LET id == UserIdUnder(storageMode, storageItems.userJourneyId, fresh)
     IN /\ storageItems' = [storageItems EXCEPT !.userJourneyId = id.stored]
        /\ pageObjects' = [pageObjects EXCEPT !["journeyTracker"] =
                             Constructed(id.userId, {})]
  /\ UNCHANGED <<storageMode, pageLoads>>

\* new ServerTracker(): getUserId, then init, which does not use
\* localStorage.
ConstructServerTracker(fresh) ==
  /\ pageObjects["serverTracker"] = NotConstructed
  /\ LET id == UserIdUnder(storageMode, storageItems.userJourneyId, fresh)
     IN /\ storageItems' = [storageItems EXCEPT !.userJourneyId = id.stored]
        /\ pageObjects' = [pageObjects EXCEPT !["serverTracker"] =
                             Constructed(id.userId, {})]
  /\ UNCHANGED <<storageMode, pageLoads>>

\* The visitor opens another page: the globals are gone, localStorage stays.
BootReload ==
  /\ pageLoads < MaxBootLoads
  /\ pageLoads' = pageLoads + 1
  /\ pageObjects' = [g \in Globals |-> NotConstructed]
  /\ UNCHANGED <<storageMode, storageItems>>

\* A first page load in a browser whose localStorage works, refuses writes
\* or throws on every access, with or without items from earlier visits.
InitBoot ==
  /\ storageMode \in StorageModes
  /\ storageItems \in [userJourneyId : {NoItem, UserN0},
                        visits : {0, 11},
                        photoViewsCount : {0, 6, 21}]
  /\ pageObjects = [g \in Globals |-> NotConstructed]
  /\ pageLoads = 1
  /\ Idle("Boot")

NextBoot ==
  \/ ConstructABTestManager(UserN7500) /\ UNCHANGED notBoot
  \/ ConstructJourneyTracker(UserN7500) /\ UNCHANGED notBoot
  \/ ConstructServerTracker(UserN7500) /\ UNCHANGED notBoot
  \/ BootReload /\ UNCHANGED notBoot

SpecBoot == InitBoot /\ [][NextBoot]_vars

(***************************************************************************)
(* commitToGitHub (src/unnamed/part_002:221-281, part_003:164-231)         *)
(*                                                                         *)
(* The requests of a run arrive within the same minute (notes) or second   *)
(* and slug (posts), so that each endpoint computes one path for all of    *)
(* them: path 0. Path k > 0 is that path with the suffix made from         *)
(* Date.now() = k. The repository follows the contents API: a PUT creates  *)
(* a file at a free path and replaces a file only when it carries the blob *)
(* SHA of that file; the SHA of a file is a function of its content.       *)
(***************************************************************************)

\* Bounds of the model: invocations in one run, and milliseconds that pass.
MaxCommits == 2
MaxClock == 2

Endpoints == {"post", "note"}
Contents == {"c1", "c2"}

\* PUT /repos/{repo}/contents/{path} with payload.content and payload.sha
\* ("none" when the payload has no sha): the files afterwards, or the
\* rejection. A sha sent for a path without a file is accepted or rejected
\* (lenient).
GitHubPut(files, path, content, sha, lenient) ==
  IF files[path] = "none"
    THEN IF sha = "none" \/ lenient
           THEN [ok |-> TRUE, files |-> [files EXCEPT ![path] = content]]
           ELSE [ok |-> FALSE, files |-> files]
  ELSE IF sha = files[path]
    THEN [ok |-> TRUE, files |-> [files EXCEPT ![path] = content]]
  ELSE [ok |-> FALSE, files |-> files]

\* payload.sha: the note endpoint sends existingFile.sha, the post endpoint
\* never sends one.
PayloadSha(endpoint, existingSha) ==
  IF endpoint = "note" THEN existingSha ELSE "none"

\* The filename of the 200 response: the post handler reads
\* commitResult.content.path, the note handler its own filename variable.
ReportedFilename(endpoint, target) == IF endpoint = "post" THEN target ELSE 0

\* The handler has validated the request and built the file content;
\* commitToGitHub sends the fetch that looks for the file.
CommitBegin(endpoint, content) ==
  /\ commitStarted < MaxCommits
  /\ commitStarted' = commitStarted + 1
  /\ commitReqs' = commitReqs \cup
        {[rid |-> commitStarted + 1, endpoint |-> endpoint, content |-> content,
          phase |-> "check", target |-> 0, sha |-> "none"]}
  /\ UNCHANGED <<repoFiles, commitClock, commitLast, repoChanged>>

\* The fetch that looks for the file settles: response.ok when it answered
\* and the file exists. Then the target gets the suffix of Date.now() and
\* the PUT is sent.
CommitChecked(r, answered) ==
  /\ r \in commitReqs /\ r.phase = "check"
  /\ LET existing == repoFiles[r.endpoint][0]
         found == answered /\ existing # "none"
     IN commitReqs' = (commitReqs \ {r}) \cup
          {[r EXCEPT !.phase = "put",
                     !.target = IF found THEN commitClock ELSE 0,
                     !.sha = IF found THEN PayloadSha(r.endpoint, existing)
                             ELSE "none"]}
  /\ UNCHANGED <<repoFiles, commitClock, commitStarted, commitLast, repoChanged>>

\* The PUT settles and the handler answers: 200 with the filename, or the
\* catch block's answer to the rejection.
CommitPut(r, lenient) ==
  /\ r \in commitReqs /\ r.phase = "put"
  /\ LET files == repoFiles[r.endpoint]
         put == GitHubPut(files, r.target, r.content, r.sha, lenient)
     IN /\ repoFiles' = [repoFiles EXCEPT ![r.endpoint] = put.files]
        /\ repoChanged' =
             IF put.ok /\ files[r.target] \notin {"none", r.content}
               THEN repoChanged \cup {<<r.endpoint, r.target>>}
               ELSE repoChanged
        /\ commitLast' =
             [ended |-> TRUE, endpoint |-> r.endpoint,
              status |-> IF put.ok THEN 200 ELSE 400,
              written |-> IF put.ok THEN r.target ELSE -1,
              filename |-> IF put.ok THEN ReportedFilename(r.endpoint, r.target)
                           ELSE -1]
  /\ commitReqs' = commitReqs \ {r}
  /\ UNCHANGED <<commitClock, commitStarted>>

\* A millisecond passes.
CommitTick ==
  /\ commitClock < MaxClock
  /\ commitClock' = commitClock + 1
  /\ UNCHANGED <<repoFiles, commitReqs, commitStarted, commitLast, repoChanged>>

\* A repository in which the computed path of an endpoint is free or holds
\* a file, and no suffixed path is taken.
InitCommit ==
  /\ repoFiles \in [Endpoints -> {f \in [0..MaxClock -> Contents \cup {"none"}] :
                                     \A k \in 1..MaxClock : f[k] = "none"}]
  /\ commitReqs = {}
  /\ commitClock = 1
  /\ commitStarted = 0
  /\ commitLast = NoInvocation
  /\ repoChanged = {}
  /\ Idle("Commit")

NextCommit ==
  \/ \E endpoint \in Endpoints, content \in Contents :
       CommitBegin(endpoint, content) /\ UNCHANGED notCommit
  \/ \E r \in commitReqs, answered \in BOOLEAN :
       CommitChecked(r, answered) /\ UNCHANGED notCommit
  \/ \E r \in commitReqs, lenient \in BOOLEAN :
       CommitPut(r, lenient) /\ UNCHANGED notCommit
  \/ CommitTick /\ UNCHANGED notCommit

SpecCommit == InitCommit /\ [][NextCommit]_vars

(***************************************************************************)
(* Language memory (src/unnamed/part_005, initLanguageMemory)              *)
(*                                                                         *)
(* One browser tab. A path is the sequence of its segments: <<>> is '/',   *)
(* <<"zh-CN">> is '/zh-CN/'. The script registers initLanguageMemory       *)
(* twice, so every page load runs it twice, one call after the other and   *)
(* both before any timer; a redirect is a setTimeout(0) callback that      *)
(* assigns window.location.href. The second call of a redirecting load     *)
(* finds the flag set, so the click listeners are attached on every load.  *)
(***************************************************************************)

\* Bounds of the model: page loads in one run, and entries of
\* navigator.languages.
MaxLangLoads == 4
MaxLanguages == 2

LanguageCodes == {"zh-cn", "zh-tw", "en-us"}
Paths == {<<>>, <<"zh-CN">>, <<"notes">>, <<"zh-CN", "notes">>,
          <<"notes", "zh-CN">>}
BoundedSeq(S, n) == UNION {[1..k -> S] : k \in 0..n}

\* currentPath.startsWith('/zh-CN/')
isChinesePage(path) == Len(path) > 0 /\ path[1] = "zh-CN"

\* currentPath === '/' || (!startsWith('/zh-CN/') && !includes('zh-CN'))
isEnglishPage(path) ==
  \/ path = <<>>
  \/ ~isChinesePage(path) /\ \A i \in 1..Len(path) : path[i] # "zh-CN"

\* The first entry that names a Chinese variant decides; 'en-US' otherwise.
RECURSIVE getBrowserPreferredLanguage(_)
getBrowserPreferredLanguage(browserLanguages) ==
  IF browserLanguages = <<>> THEN "en-US"
  ELSE IF Head(browserLanguages) \in {"zh-cn", "zh-sg", "zh-hans", "zh"}
    THEN "zh-CN"
  ELSE IF Head(browserLanguages) \in {"zh-tw", "zh-hk", "zh-mo", "zh-hant"}
    THEN "en-US"
  ELSE getBrowserPreferredLanguage(Tail(browserLanguages))

isFirstTimeVisitor(saved, session) == saved = "null" /\ ~session.visited

\* A load that ignores the flag.
hasBeenRedirected_Never(session) == FALSE

\* sessionStorage.getItem('language-redirected')
hasBeenRedirected(session) == session.redirected

\* Where the page is redirected to for a language: the other home page,
\* when the open page is the home page of the other language.
RedirectTarget(path, language) ==
  IF language = "zh-CN" /\ path = <<>> THEN {<<"zh-CN">>}
  ELSE IF language = "en-US" /\ path = <<"zh-CN">> THEN {<<>>}
  ELSE {}

\* One call of initLanguageMemory on the page at path: the storage, the
\* pending timers and the number of redirects started, after the call.
initLanguageMemory(path, browser, st) ==
  LET first == isFirstTimeVisitor(st.saved, st.session)
      checked == ~hasBeenRedirected(st.session) /\ path \in {<<>>, <<"zh-CN">>}
      session == IF checked /\ first
                   THEN [st.session EXCEPT !.visited = TRUE]
                   ELSE st.session
      language == IF first THEN getBrowserPreferredLanguage(browser)
                  ELSE st.saved
      target == IF checked THEN RedirectTarget(path, language) ELSE {}
  IN IF target # {}
       THEN [session |-> [session EXCEPT !.redirected = TRUE],
             saved |-> st.saved,
             timers |-> st.timers \cup target,
             started |-> st.started + 1]
       ELSE [session |-> session,
             saved |-> IF isChinesePage(path) THEN "zh-CN"
                       ELSE IF isEnglishPage(path) THEN "en-US"
                       ELSE st.saved,
             timers |-> st.timers,
             started |-> st.started]

\* The document at path loads and both registrations of initLanguageMemory
\* run; automatic is 1 when a redirect brought the tab here.
LangLoaded(path, automatic) ==
  LET once == initLanguageMemory(path, langBrowser,
                [session |-> langSession, saved |-> langSaved,
                 timers |-> {}, started |-> 0])
      twice == initLanguageMemory(path, langBrowser, once)
  IN /\ langLoads < MaxLangLoads
     /\ langLoads' = langLoads + 1
     /\ langPath' = path
     /\ langSession' = twice.session
     /\ langSaved' = twice.saved
     /\ langTimers' = twice.timers
     /\ langLink' = {}
     /\ langLast' = [loaded |-> TRUE, flag |-> langSession.redirected,
                     started |-> twice.started]
     /\ langSince' = [started |-> langSince.started + twice.started,
                      done |-> langSince.done + automatic]
     /\ UNCHANGED langBrowser

\* The user opens a page of the site in the tab (address bar, bookmark, or
\* a link other than the switcher's).
LangOpen(path) ==
  /\ langTimers = {} /\ langLink = {}
  /\ LangLoaded(path, 0)

\* A setTimeout(0) callback runs: window.location.href = target. It also
\* replaces the navigation a click has begun.
LangTimerFires(target) ==
  /\ target \in langTimers
  /\ LangLoaded(target, 1)

\* The document of the clicked switcher link arrives.
LangLinkLoads(href) ==
  /\ href \in langLink
  /\ LangLoaded(href, 0)

\* The click listener of a switcher link, after which the browser follows
\* the link.
LangClick(href) ==
  /\ langLoads > 0 /\ langLink = {}
  /\ langSession' = [langSession EXCEPT !.redirected = FALSE]
  /\ langSaved' = IF href = <<"zh-CN">> THEN "zh-CN"
                  ELSE IF href = <<>> THEN "en-US"
                  ELSE langSaved
  /\ langLink' = {href}
  /\ langSince' = [started |-> 0, done |-> 0]
  /\ UNCHANGED <<langPath, langBrowser, langTimers, langLoads, langLast>>

\* The tab is closed and the site is opened in a new one: sessionStorage
\* starts empty, localStorage stays.
LangNewSession ==
  /\ langLoads > 0 /\ langTimers = {} /\ langLink = {}
  /\ langSession' = [redirected |-> FALSE, visited |-> FALSE]
  /\ langSince' = [started |-> 0, done |-> 0]
  /\ langLast' = NoLoad
  /\ UNCHANGED <<langPath, langSaved, langBrowser, langTimers, langLink,
                 langLoads>>

\* A new tab; localStorage may hold a preference from an earlier session.
InitLang ==
  /\ langPath = <<>>
  /\ langSession = [redirected |-> FALSE, visited |-> FALSE]
  /\ langSaved \in {"null", "zh-CN", "en-US"}
  /\ langBrowser \in BoundedSeq(LanguageCodes, MaxLanguages)
  /\ langTimers = {}
  /\ langLink = {}
  /\ langLoads = 0
  /\ langLast = NoLoad
  /\ langSince = [started |-> 0, done |-> 0]
  /\ Idle("Lang")

NextLang ==
  \/ \E path \in Paths : LangOpen(path) /\ UNCHANGED notLang
  \/ \E target \in langTimers : LangTimerFires(target) /\ UNCHANGED notLang
  \/ \E href \in langLink : LangLinkLoads(href) /\ UNCHANGED notLang
  \/ \E href \in Paths : LangClick(href) /\ UNCHANGED notLang
  \/ LangNewSession /\ UNCHANGED notLang

SpecLang == InitLang /\ [][NextLang]_vars

(***************************************************************************)
(* Conversion goals (journey-tracking.js trackConversionGoal, site.js      *)
(* setupGoalTracking and handleGoalConversion, server-tracking.js          *)
(* integrateWithExistingTrackers)                                          *)
(*                                                                         *)
(* One page after its DOMContentLoaded listeners have run. Each wrapper    *)
(* replaces the trackConversionGoal property of the tracker object with a  *)
(* function that calls the function it replaced and then emits its own     *)
(* event. The listeners of the tracker call this.trackConversionGoal, that *)
(* is, the outermost wrapper.                                              *)
(***************************************************************************)

\* Bound of the model: trackConversionGoal calls on one page.
MaxGoalCalls == 4

GoalNames == {"form_submission", "photo_view", "content_view"}
GoalEvents == {"journey_conversion_goal", "ab_test_conversion",
               "conversion_goal_server"}

\* config.goals of two of the experiments of this.experimentConfigs
ExperimentGoals ==
  [write_form_layout |-> {"form_submission", "write_submit_success"},
   homepage_content_order |-> {"photo_view", "stories_view",
                                 "content_engagement"}]

\* trackUmami or serverTracker.track: n more events of a name for a goal
Emit(records, event, goalName, n) ==
  [records EXCEPT ![event][goalName] = @ + n]

\* JourneyTracker.trackConversionGoal
trackConversionGoal(st, goalName) ==
  IF goalName \in st.conversionGoals THEN st
  ELSE [conversionGoals |-> st.conversionGoals \cup {goalName},
        records |-> Emit(st.records, "journey_conversion_goal", goalName, 1)]

\* ABTestManager.handleGoalConversion: one ab_test_conversion for every
\* experiment of this.experiments that lists the goal
handleGoalConversion(records, experiments, goalName) ==
  Emit(records, "ab_test_conversion", goalName,
       Cardinality({e \in experiments : goalName \in ExperimentGoals[e]}))

\* window.journeyTracker.trackConversionGoal(goalName) through the wrappers
RECURSIVE WrappedTrack(_, _, _, _)
WrappedTrack(wrappers, experiments, st, goalName) ==
  IF wrappers = <<>> THEN trackConversionGoal(st, goalName)
  ELSE LET inner == WrappedTrack(SubSeq(wrappers, 1, Len(wrappers) - 1),
                                 experiments, st, goalName)
       IN IF wrappers[Len(wrappers)] = "ab"
            THEN [inner EXCEPT !.records =
                    handleGoalConversion(@, experiments, goalName)]
            ELSE [inner EXCEPT !.records =
                    Emit(@, "conversion_goal_server", goalName, 1)]

Downstream(records, goalName) ==
  records["ab_test_conversion"][goalName]
    + records["conversion_goal_server"][goalName]

\* n calls of journeyTracker.trackConversionGoal(goalName), one after the
\* other
GoalCalled(goalName, n) ==
  LET st0 == [conversionGoals |-> conversionGoals, records |-> goalRecords]
      st1 == WrappedTrack(goalWrappers, goalExperiments, st0, goalName)
      st2 == IF n = 2
               THEN WrappedTrack(goalWrappers, goalExperiments, st1, goalName)
               ELSE st1
      before == IF n = 2 THEN st1 ELSE st0
  IN /\ goalCalls + n <= MaxGoalCalls
     /\ goalCalls' = goalCalls + n
     /\ conversionGoals' = st2.conversionGoals
     /\ goalRecords' = st2.records
     /\ goalLast' = [called |-> TRUE, goalName |-> goalName,
                     known |-> goalName \in before.conversionGoals,
                     added |-> Downstream(st2.records, goalName)
                                 - Downstream(before.records, goalName)]
     /\ UNCHANGED <<goalWrappers, goalExperiments>>

\* A tracker of the page (photo-journey-tracking.js,
\* content-journey-tracking.js) reports a goal.
GoalTrack(goalName) == GoalCalled(goalName, 1)

\* A form is submitted: the submit listener of the journey tracker reports
\* 'form_submission', and so does the submit listener of the form tracker
\* on a page that has one.
GoalSubmit(formTracker) ==
  GoalCalled("form_submission", IF formTracker THEN 2 ELSE 1)

\* The setTimeout callback of integrateWithExistingTrackers
GoalServerIntegrates ==
  /\ \A i \in 1..Len(goalWrappers) : goalWrappers[i] # "server"
  /\ goalWrappers' = Append(goalWrappers, "server")
  /\ UNCHANGED <<conversionGoals, goalExperiments, goalRecords, goalCalls,
                 goalLast>>

\* The page after DOMContentLoaded: setupGoalTracking has wrapped the
\* method when the journey tracker was constructed before the manager;
\* the manager runs any of the experiments.
InitGoal ==
  /\ conversionGoals = {}
  /\ goalWrappers \in {<<>>, <<"ab">>}
  /\ goalExperiments \in SUBSET (DOMAIN ExperimentGoals)
  /\ goalRecords = [e \in GoalEvents |-> [g \in GoalNames |-> 0]]
  /\ goalCalls = 0
  /\ goalLast = NoSel
  /\ Idle("Goal")

NextGoal ==
  \/ \E goalName \in GoalNames : GoalTrack(goalName) /\ UNCHANGED notGoal
  \/ \E formTracker \in BOOLEAN : GoalSubmit(formTracker) /\ UNCHANGED notGoal
  \/ GoalServerIntegrates /\ UNCHANGED notGoal

SpecGoal == InitGoal /\ [][NextGoal]_vars

(***************************************************************************)
(* Exit intent (journey-tracking.js, setupExitIntentDetection)             *)
(*                                                                         *)
(* One tracker instance on one page. All timers of the detection run for   *)
(* one second, so they fire in the order they were set. The five minutes   *)
(* of the inactivity check are the flag exitQuiet: it becomes true when no *)
(* timer is pending and is cleared by the events that call                 *)
(* updateLastActivity (mousemove, keydown); mouseleave and mouseenter do   *)
(* not call it.                                                            *)
(***************************************************************************)

\* Bound of the model: pointer and key events on one page.
MaxExitInputs == 5

\* trackExitIntent(reason)
trackExitIntent(events, reason) == Append(events, reason)

ExitInput ==
  /\ exitInputs < MaxExitInputs
  /\ exitInputs' = exitInputs + 1

\* clearTimeout(handle)
ClearTimeout(timers, handle) ==
  SelectSeq(timers, LAMBDA t : t.handle # handle)

\* The mouseleave listener; top is e.clientY <= 0.
ExitMouseLeave(top) ==
  /\ exitInside /\ ExitInput
  /\ exitInside' = FALSE
  /\ IF top /\ ~exitIntentDetected
       THEN /\ mouseLeaveTimer' = exitInputs + 1
            /\ exitTimers' = Append(exitTimers,
                 [kind |-> "mouse_leave", handle |-> exitInputs + 1])
       ELSE UNCHANGED <<mouseLeaveTimer, exitTimers>>
  /\ UNCHANGED <<exitIntentDetected, rapidKeyPresses, exitQuiet, exitEvents>>

\* The mouseenter listener
ExitMouseEnter ==
  /\ ~exitInside /\ ExitInput
  /\ exitInside' = TRUE
  /\ exitTimers' = ClearTimeout(exitTimers, mouseLeaveTimer)
  /\ UNCHANGED <<exitIntentDetected, mouseLeaveTimer, rapidKeyPresses,
                 exitQuiet, exitEvents>>

\* The mousemove listener of startEngagementTracking
ExitMouseMove ==
  /\ exitInside /\ ExitInput
  /\ exitQuiet' = FALSE
  /\ UNCHANGED <<exitIntentDetected, exitInside, exitTimers, mouseLeaveTimer,
                 rapidKeyPresses, exitEvents>>

\* The keydown listeners: the one of the interaction tracking calls
\* updateLastActivity, the one of the detection counts the presses made
\* with ctrlKey or metaKey.
ExitKeyDown(modifier) ==
  /\ ExitInput
  /\ exitQuiet' = FALSE
  /\ IF modifier
       THEN /\ rapidKeyPresses' = rapidKeyPresses + 1
            /\ exitTimers' = Append(exitTimers,
                 [kind |-> "key", handle |-> exitInputs + 1])
            /\ IF rapidKeyPresses + 1 >= 2 /\ ~exitIntentDetected
                 THEN /\ exitIntentDetected' = TRUE
                      /\ exitEvents' =
                           trackExitIntent(exitEvents, "rapid_key_presses")
                 ELSE UNCHANGED <<exitIntentDetected, exitEvents>>
       ELSE UNCHANGED <<rapidKeyPresses, exitTimers, exitIntentDetected,
                        exitEvents>>
  /\ UNCHANGED <<exitInside, mouseLeaveTimer>>

\* The oldest pending timer fires: the callback of the mouseleave listener,
\* or the one that takes a key press off the counter.
ExitTimerFires ==
  /\ exitTimers # <<>>
  /\ exitTimers' = Tail(exitTimers)
  /\ IF Head(exitTimers).kind = "mouse_leave"
       THEN /\ exitIntentDetected' = TRUE
            /\ exitEvents' = trackExitIntent(exitEvents, "mouse_leave")
            /\ UNCHANGED rapidKeyPresses
       ELSE /\ rapidKeyPresses' =
                 IF rapidKeyPresses - 1 > 0 THEN rapidKeyPresses - 1 ELSE 0
            /\ UNCHANGED <<exitIntentDetected, exitEvents>>
  /\ UNCHANGED <<exitInside, mouseLeaveTimer, exitQuiet, exitInputs>>

\* Five minutes pass without a mousemove or a keydown.
ExitQuietens ==
  /\ exitTimers = <<>> /\ ~exitQuiet
  /\ exitQuiet' = TRUE
  /\ UNCHANGED <<exitIntentDetected, exitInside, exitTimers, mouseLeaveTimer,
                 rapidKeyPresses, exitEvents, exitInputs>>

\* The callback of the 60 s interval
ExitInactivityCheck ==
  /\ IF exitQuiet /\ ~exitIntentDetected
       THEN /\ exitIntentDetected' = TRUE
            /\ exitEvents' = trackExitIntent(exitEvents, "inactivity_timeout")
       ELSE UNCHANGED <<exitIntentDetected, exitEvents>>
  /\ UNCHANGED <<exitInside, exitTimers, mouseLeaveTimer, rapidKeyPresses,
                 exitQuiet, exitInputs>>

\* new JourneyTracker(): exitIntentDetected = false, no timer, the pointer
\* inside or outside the document.
InitExit ==
  /\ exitIntentDetected = FALSE
  /\ exitInside \in BOOLEAN
  /\ exitTimers = <<>>
  /\ mouseLeaveTimer = 0
  /\ rapidKeyPresses = 0
  /\ exitQuiet = FALSE
  /\ exitEvents = <<>>
  /\ exitInputs = 0
  /\ Idle("Exit")

NextExit ==
  \/ \E top \in BOOLEAN : ExitMouseLeave(top) /\ UNCHANGED notExit
  \/ ExitMouseEnter /\ UNCHANGED notExit
  \/ ExitMouseMove /\ UNCHANGED notExit
  \/ \E modifier \in BOOLEAN : ExitKeyDown(modifier) /\ UNCHANGED notExit
  \/ ExitTimerFires /\ UNCHANGED notExit
  \/ ExitQuietens /\ UNCHANGED notExit
  \/ ExitInactivityCheck /\ UNCHANGED notExit

SpecExit == InitExit /\ [][NextExit]_vars

(***************************************************************************)
(* FormTracker (form-tracking.js): submission and abandonment tracking     *)
(*                                                                         *)
(* One tracker on one write page whose form exists. The tracker object is  *)
(* not kept in a variable or a global, so its fields change only in its    *)
(* own methods. form_submit_success and form_submit_error are events some  *)
(* other script dispatches on window after the submission.                 *)
(***************************************************************************)

\* Bound of the model: events dispatched on one page.
MaxFormInputs == 5

FormInput ==
  /\ formPage = "live"
  /\ formInputs < MaxFormInputs
  /\ formInputs' = formInputs + 1

\* The focusin listener of the form
FormFocusIn ==
  /\ FormInput
  /\ isFormActive' = TRUE
  /\ hasInteracted' = TRUE
  /\ UNCHANGED <<isSubmitted, formTimers, formPage, formEvents>>

\* The focusout listener of the form
FormFocusOut ==
  /\ FormInput
  /\ formTimers' = formTimers + 1
  /\ UNCHANGED <<hasInteracted, isFormActive, isSubmitted, formPage,
                 formEvents>>

\* The timer of the focusout listener; contained is
\* this.form.contains(document.activeElement).
FormFocusTimer(contained) ==
  /\ formPage = "live" /\ formTimers > 0
  /\ formTimers' = formTimers - 1
  /\ isFormActive' = IF contained THEN isFormActive ELSE FALSE
  /\ UNCHANGED <<hasInteracted, isSubmitted, formPage, formEvents,
                 formInputs>>

\* The submit listener of the form
FormSubmit ==
  /\ FormInput
  /\ formEvents' = Append(formEvents, "form_submit_attempt")
  /\ UNCHANGED <<hasInteracted, isFormActive, isSubmitted, formTimers,
                 formPage>>

\* The form_submit_success and form_submit_error listeners; mine is
\* e.detail && e.detail.sessionId === this.sessionId.
FormSubmitResult(name, mine) ==
  /\ FormInput
  /\ formEvents' = IF mine THEN Append(formEvents, name) ELSE formEvents
  /\ UNCHANGED <<hasInteracted, isFormActive, isSubmitted, formTimers,
                 formPage>>

\* The visibilitychange listener; hidden is document.hidden.
FormVisibilityChange(hidden) ==
  /\ FormInput
  /\ formEvents' =
       IF hidden /\ hasInteracted /\ isFormActive /\ ~Truthy(isSubmitted)
         THEN Append(formEvents, "form_pause")
         ELSE formEvents
  /\ UNCHANGED <<hasInteracted, isFormActive, isSubmitted, formTimers,
                 formPage>>

\* The beforeunload listener, after which the page is gone.
FormBeforeUnload ==
  /\ formPage = "live"
  /\ formPage' = "unloaded"
  /\ formEvents' =
       IF hasInteracted /\ ~Truthy(isSubmitted)
         THEN Append(formEvents, "form_abandon")
         ELSE formEvents
  /\ UNCHANGED <<hasInteracted, isFormActive, isSubmitted, formTimers,
                 formInputs>>

\* new FormTracker(formSelector): the constructor assigns no isSubmitted,
\* and trackFormStart has sent form_start.
InitForm ==
  /\ hasInteracted = FALSE
  /\ isFormActive = FALSE
  /\ isSubmitted = Undefined
  /\ formTimers = 0
  /\ formPage = "live"
  /\ formEvents = <<"form_start">>
  /\ formInputs = 0
  /\ Idle("Form")

NextForm ==
  \/ FormFocusIn /\ UNCHANGED notForm
  \/ FormFocusOut /\ UNCHANGED notForm
  \/ \E contained \in BOOLEAN : FormFocusTimer(contained) /\ UNCHANGED notForm
  \/ FormSubmit /\ UNCHANGED notForm
  \/ \E name \in {"form_submit_success", "form_submit_error"},
        mine \in BOOLEAN : FormSubmitResult(name, mine) /\ UNCHANGED notForm
  \/ \E hidden \in BOOLEAN : FormVisibilityChange(hidden) /\ UNCHANGED notForm
  \/ FormBeforeUnload /\ UNCHANGED notForm

SpecForm == InitForm /\ [][NextForm]_vars

(***************************************************************************)
(* Claims about the ServerTracker                                          *)
(***************************************************************************)

Min(a, b) == IF a < b THEN a ELSE b

\* The batch flushQueue has just handed to fetch is pending and off the queue.
JustStarted(batch) ==
  /\ \E b \in inflight : b.events = batch /\ b.phase = "fetch" /\ b.fetches = 1
  /\ IdsOf(batch) \cap IdsOf(eventQueue) = {}

\* C1 as stated: every track() call that leaves at least batchSize events in
\* the queue starts a send of a batch within that call, in every tracker state.
C1_ThresholdAlwaysSends ==
  (lastOp.op = "track" /\ lastOp.seen >= batchSize)
    => (lastOp.transport = "async" /\ lastOp.initiated # <<>>)

\* C1 amended: while the tracker is online, every track() call that leaves at
\* least batchSize events in the queue starts, within that call, an
\* asynchronous send of the first batchSize events, which leave the queue.
C1_ThresholdSendsWhenOnline ==
  (lastOp.op = "track" /\ lastOp.seen >= batchSize /\ isOnline)
    => /\ lastOp.transport = "async"
       /\ Len(lastOp.initiated) = batchSize
       /\ Len(eventQueue) = lastOp.seen - batchSize
       /\ JustStarted(lastOp.initiated)

\* C1 witness: a track() call has just started a send of a full batch.
C1_Witness ==
  /\ lastOp.op = "track" /\ lastOp.seen >= batchSize /\ isOnline
  /\ lastOp.transport = "async" /\ Len(lastOp.initiated) = batchSize

\* C2: a track() call that leaves fewer than batchSize events in the queue
\* starts no send, and a send is only ever started by a track() call at the
\* threshold, the interval timer, the online event, page hidden, beforeunload
\* or a manual flush().
C2_BelowThresholdNoSend ==
  /\ (lastOp.op = "track" /\ lastOp.seen < batchSize)
       => (lastOp.transport = "none" /\ lastOp.initiated = <<>>
           /\ Len(eventQueue) = lastOp.seen)
  /\ lastOp.transport # "none"
       => \/ lastOp.op \in {"timer", "online", "hidden", "beforeunload", "flush"}
          \/ (lastOp.op = "track" /\ lastOp.seen >= batchSize)

\* C2 witness: online, one event short of the threshold, nothing sent so far.
C2_Witness ==
  /\ lastOp.op = "track" /\ lastOp.seen = batchSize - 1 /\ isOnline
  /\ sends = 0 /\ inflight = {} /\ Len(eventQueue) = batchSize - 1

\* Every event the tracker still holds: queued or in a pending batch.
Held == SeqRange(eventQueue) \cup UNION {SeqRange(b.events) : b \in inflight}

\* C3: an event is put back at most maxRetries (3) times (_retryCount counts
\* the put-backs and never exceeds 3); the event the catch block leaves out
\* was on its third requeue, and it is not in the queue or in a batch again.
C3_RequeueCeiling ==
  /\ \A e \in Held : e.retryCount \in 0..3
  /\ \A d \in dropped :
        /\ d.retryCount = 3
        /\ \A e \in Held : e.id # d.id

\* C3 witness: an event was dropped after its sends kept failing.
C3_Witness == \E d \in dropped : d.retryCount = 3 /\ d.id \notin IdsOf(eventQueue)

\* The delays sendAsync has waited through before its k-th retry, k = 0, 1, 2.
BackoffSchedule == <<1000, 2000, 4000>>

\* C4: sendAsync makes at most 4 fetch attempts for one payload, waits 1000,
\* 2000, 4000 ms before retry 0, 1, 2, throws only after the 4th consecutive
\* failure, and after a success the batch is neither retried nor requeued.
C4_SendAsyncRetries ==
  /\ \A b \in inflight :
        /\ b.fetches \in 1..4
        /\ b.fetches = b.retryCount + 1
        /\ Len(b.waited) = (IF b.phase = "delay" THEN b.fetches ELSE b.fetches - 1)
        /\ Len(b.waited) <= 3
        /\ b.waited = SubSeq(BackoffSchedule, 1, Len(b.waited))
  /\ lastOp.outcome = "throw"
       => (lastOp.fetches = 4 /\ lastOp.waited = BackoffSchedule)
  /\ lastOp.outcome = "success"
       => /\ lastOp.fetches \in 1..4
          /\ lastOp.waited = SubSeq(BackoffSchedule, 1, lastOp.fetches - 1)
          /\ \A e \in Held : e.id \notin IdsOf(lastOp.ended)

\* C4 witness: a sendAsync call has just thrown to flushQueue.
C4_Witness == lastOp.outcome = "throw" /\ lastOp.fetches = 4

\* The events of a failed batch that are still under the retry ceiling, with
\* their retry count raised, in the order they had in the batch.
RECURSIVE Returning(_)
Returning(batch) ==
  IF batch = <<>> THEN <<>>
  ELSE (IF Head(batch).retryCount < 3
          THEN <<[Head(batch) EXCEPT !.retryCount = @ + 1]>> ELSE <<>>)
       \o Returning(Tail(batch))

RECURSIVE Reverse(_)
Reverse(s) == IF s = <<>> THEN <<>> ELSE Reverse(Tail(s)) \o <<Head(s)>>

\* The step ends the asynchronous batch b with the error reaching the catch
\* block of flushQueue.
BatchFails(b) ==
  b \in inflight /\ b \notin inflight' /\ lastOp'.outcome = "throw"
    /\ lastOp'.ended = b.events

\* C22 as stated: the returning events of a failed batch go to the front of
\* the queue in the relative order they had in the batch.
C22_RequeueKeepsOrder ==
  [][\A b \in inflight :
       BatchFails(b) => eventQueue' = Returning(b.events) \o eventQueue
    ]_vars

\* C22 amended: they go to the front of the queue, ahead of the events
\* tracked since, in the reverse of the order they had in the batch.
C22_RequeueReversesOrder ==
  [][\A b \in inflight :
       BatchFails(b) => eventQueue' = Reverse(Returning(b.events)) \o eventQueue
    ]_vars

\* A batch of two events has just failed and both are back, the second one
\* first.
C22_Witness ==
  /\ lastOp.outcome = "throw" /\ Len(lastOp.ended) = 2
  /\ Len(eventQueue) >= 2
  /\ eventQueue[1].id = lastOp.ended[2].id
  /\ eventQueue[2].id = lastOp.ended[1].id

\* C23: every payload carries between 1 and 10 events, no event is in two
\* in-flight batches, and no event is queued while it is in an in-flight
\* batch.
C23_BatchIsolation ==
  /\ \A b \in inflight : Len(b.events) \in 1..10
  /\ lastOp.transport # "none" => Len(lastOp.initiated) \in 1..10
  /\ \A b1 \in inflight : \A b2 \in inflight \ {b1} :
        IdsOf(b1.events) \cap IdsOf(b2.events) = {}
  /\ \A b \in inflight : IdsOf(b.events) \cap IdsOf(eventQueue) = {}

\* Two batches are in flight at once, a full one of 10 events and the one
\* with the event tracked after it.
C23_Witness ==
  \E b1 \in inflight : \E b2 \in inflight \ {b1} :
    Len(b1.events) = 10 /\ Len(b2.events) = 1

\* C24: if the page stays open and the tracker ends up online for good, then
\* (every send succeeding, the timer running) all tracked events are
\* eventually sent and the queue stays empty once tracking has stopped.
C24_EventuallyEmpty ==
  ([](page = "live") /\ <>[]isOnline)
    => <>[](eventQueue = <<>> /\ inflight = {} /\ dropped = {})

\* The online handler found 11 events accumulated while offline and sent the
\* first 10; one is left to the timer.
C24_Witness ==
  /\ isOnline /\ page = "live"
  /\ lastOp.op = "online" /\ lastOp.seen = 11
  /\ Len(lastOp.initiated) = 10 /\ Len(eventQueue) = 1

\* C5 as stated: after beforeunload with the tracker online the queue is empty
\* (all remaining events went to the synchronous transport).
C5_UnloadEmptiesQueue ==
  (page = "unloaded" /\ isOnline) => eventQueue = <<>>

\* C6: while offline no handler starts a send and no event leaves the queue
\* except by clearQueue(); the online event with a non-empty queue starts a
\* send of the head of the queue at once.
C6_OfflineHoldsQueue ==
  [][ /\ (~isOnline /\ ~isOnline')
           => /\ sends' = sends
              /\ \A b \in inflight' : IdsOf(b.events) \cap IdsOf(eventQueue) = {}
              /\ (lastOp' # lastOp => lastOp'.transport = "none")
              /\ \/ IdsOf(eventQueue) \subseteq IdsOf(eventQueue')
                 \/ (lastOp'.op = "clearQueue" /\ eventQueue' = <<>>)
      /\ (~isOnline /\ isOnline' /\ eventQueue # <<>>)
           => /\ sends' = sends + 1
              /\ lastOp'.op = "online" /\ lastOp'.transport = "async"
              /\ lastOp'.initiated =
                    SubSeq(eventQueue, 1, Min(Len(eventQueue), batchSize))
              /\ \E b \in inflight' \ inflight : b.events = lastOp'.initiated
    ]_vars

\* C6 witness: the online event has just sent a full batch that had piled up
\* (past the threshold) while the tracker was offline.
C6_Witness ==
  /\ lastOp.op = "online" /\ lastOp.transport = "async"
  /\ lastOp.seen >= batchSize /\ Len(lastOp.initiated) = batchSize

(***************************************************************************)
(* Claims about the ABTestManager                                          *)
(***************************************************************************)

RECURSIVE CumulativeWeight(_, _)
\* The weights (percent) of the first i variants of a table, added up.
CumulativeWeight(variantEntries, i) ==
  IF i = 0 THEN 0
  ELSE CumulativeWeight(variantEntries, i - 1) + variantEntries[i].weight

TotalWeight(variantEntries) == CumulativeWeight(variantEntries, Len(variantEntries))

\* The position of a variant key in its table (keys are distinct).
IndexOf(variantEntries, key) ==
  CHOOSE i \in 1..Len(variantEntries) : variantEntries[i].key = key

C8_FirstStrictlyAbove ==
  (lastSel.called /\ TotalWeight(Variants(lastSel.table)) = 100)
    => LET variantEntries == Variants(lastSel.table)
           i == IndexOf(variantEntries, lastSel.key)
       IN /\ lastSel.n < 100 * CumulativeWeight(variantEntries, i)
          /\ \A j \in 1..(i - 1) :
                ~(lastSel.n < 100 * CumulativeWeight(variantEntries, j))

\* C8 as the code has it: on a table whose weights add up to 100, the variant
\* returned is the first whose cumulative weight is at least v = n / 10000
\* (a value equal to a boundary belongs to the variant below the boundary).
C8_FirstAtLeast ==
  (lastSel.called /\ TotalWeight(Variants(lastSel.table)) = 100)
    => LET variantEntries == Variants(lastSel.table)
           i == IndexOf(variantEntries, lastSel.key)
       IN /\ lastSel.n <= 100 * CumulativeWeight(variantEntries, i)
          /\ \A j \in 1..(i - 1) :
                lastSel.n > 100 * CumulativeWeight(variantEntries, j)

\* A visitor whose value is exactly the first boundary of a 50/25/25 table.
C8_Witness ==
  /\ lastSel.called
  /\ lastSel.table = "write_form_layout"
  /\ lastSel.n = 5000
  /\ lastSel.key = "control"

\* The call is on a table whose weights add up to less than 100 and the
\* visitor's value lies above the total weight.
AboveTotalWeight ==
  /\ lastSel.called
  /\ TotalWeight(Variants(lastSel.table)) < 100
  /\ lastSel.n > 100 * TotalWeight(Variants(lastSel.table))

\* C9 as stated: a value above the total weight of a table that adds up to
\* less than 100 selects the last variant of the list.
C9_LastAbsorbs ==
  AboveTotalWeight
    => lastSel.key = Variants(lastSel.table)[Len(Variants(lastSel.table))].key

\* C9 as the code has it: a value above the total weight of a table that adds
\* up to less than 100 selects the first variant of the list.
C9_FirstAbsorbs ==
  AboveTotalWeight => lastSel.key = Variants(lastSel.table)[1].key

\* A value of 0.9999 on a 50/25 table.
C9_Witness ==
  /\ AboveTotalWeight
  /\ lastSel.table = "short_by_25"
  /\ lastSel.n = 9999
  /\ lastSel.key = "control"

\* C10: for every visitor id, the null id included, hashString returns a
\* non-negative integer (at most 2^31) and hash % 10000 lies in 0..9999, so
\* the value (hash % 10000) / 10000 lies in [0, 1).
C10_HashRange ==
  lastSel.called
    => /\ lastSel.hash.hi \in 0..32768
       /\ lastSel.hash.lo \in 0..65535
       /\ lastSel.hash.hi = 32768 => lastSel.hash.lo = 0
       /\ lastSel.n \in 0..9999

\* The visitor whose 32-bit hash is -2^31, the one int32 without a negation.
C10_Witness ==
  /\ lastSel.called
  /\ lastSel.userId = UserMinInt
  /\ lastSel.hash = [hi |-> 32768, lo |-> 0]
  /\ lastSel.n = 3648

RECURSIVE SumTo(_, _)
\* f[1] + ... + f[i]
SumTo(f, i) == IF i = 0 THEN 0 ELSE SumTo(f, i - 1) + f[i]

\* C11: for each configured experiment, every one of the 10000 values of
\* hash % 10000 selects one variant of the table, and once all values are
\* counted each variant has its weight's share (weight x 100 values) to
\* within one value.
C11_Distribution ==
  distTable \in ConfiguredTables
    => /\ SumTo(distCount, Len(distCount)) = distN
       /\ distN = Buckets
            => \A i \in 1..Len(distCount) :
                  LET share == 100 * Variants(distTable)[i].weight
                  IN distCount[i] \in (share - 1)..(share + 1)

\* The sweep of the 50/25/25 table is complete: the boundary values 5000 and
\* 7500 went to the variant below the boundary.
C11_Witness ==
  /\ distTable = "write_form_layout"
  /\ distN = Buckets
  /\ distCount = <<5001, 2500, 2499>>

\* The page load found an assignment for its experiment in storage: it uses
\* that one, without selecting a variant and without an assignment event.
StoredAssignmentApplied ==
  (asgLast.loaded /\ asgLast.stored # {})
    => /\ asgLast.stored = {asgLast.applied}
       /\ ~asgLast.selected
       /\ ~asgLast.emitted

\* The page load ran an experiment whose assignment an earlier page made and
\* saved at its unload: it uses that assignment.
SavedAssignmentKept ==
  (asgLast.loaded /\ HasAssignment(asgKept, asgLast.experimentId))
    => asgLast.applied = GetAssignment(asgKept, asgLast.experimentId)

\* C12: a page load that finds an assignment for its experiment in storage
\* applies it unchanged (no selectVariantForUser call, no ab_test_assignment
\* event), and an assignment made on one page load and saved at its unload
\* is the one every later page load uses.
C12_CachedAssignment == StoredAssignmentApplied /\ SavedAssignmentKept

\* C21: every save replaces the whole stored key by the map the saving tab
\* read at its page load plus its own assignments, whatever another tab has
\* saved since (no concurrency control), so an assignment saved by one tab
\* can be discarded by the other tab's later save.
C21_WholeKeyRewritten ==
  [][\A tab \in Tabs :
       (asgTabs[tab].open /\ ~asgTabs'[tab].open)
         => asgStore' = asgTabs[tab].userAssignments
    ]_vars

\* An assignment that the tab which made it saved is no longer stored, and
\* no tab is open that could still save it.
C21_Witness ==
  /\ \E a \in asgKept : ~HasAssignment(asgStore, a.experimentId)
  /\ \A tab \in Tabs : ~asgTabs[tab].open

(***************************************************************************)
(* Claims about the likes endpoint                                         *)
(***************************************************************************)

\* The invocation r, pending before the step, has ended in the step.
EndsInStep(r) == \A o \in likeReqs' : o.rid # r.rid

\* C13: a GET that reads the store while it holds no row for the page is
\* answered 200 with count 0 (also when the read fails), and no step of a GET
\* creates or changes a row.
C13_GetUnknownId ==
  [][\A r \in likeReqs :
        (r.method = "GET" /\ EndsInStep(r))
          => /\ likeStore' = likeStore
             /\ Rows(likeStore, r.cleanId) = {}
                  => /\ likeLast'.method = "GET" /\ likeLast'.outcome = "responded"
                     /\ likeLast'.status = 200
                     /\ likeLast'.count = 0
    ]_vars

\* A GET for a page without a row has just been answered with count 0.
C13_Witness ==
  /\ likeLast.ended /\ likeLast.method = "GET" /\ likeLast.readOk
  /\ ~likeLast.hadRow /\ Rows(likeStore, likeLast.cleanId) = {}
  /\ likeLast.status = 200 /\ likeLast.count = 0

\* A successful POST that no other request for its page overlapped raised the
\* stored count by exactly 1 and answered with the new count.
PostAddsOne ==
  (likeLast.ended /\ likeLast.method = "POST" /\ likeLast.status = 200
     /\ ~likeLast.overlapped)
    => /\ likeLast.count = likeLast.before + 1
       /\ CountOf(Rows(likeStore, likeLast.cleanId)) = likeLast.count

\* While every POST for a page succeeded without overlap, its count is the
\* initial count plus the number of POSTs.
CountIsInitialPlusPosts ==
  \A p \in PageIds :
    likeLedger[p].clean
      => CountOf(Rows(likeStore, p)) = likeLedger[p].initial + likeLedger[p].posts

C15_ReadThenWrite ==
  [][\A r \in likeReqs :
        (r.phase = "patch" /\ EndsInStep(r) /\ likeLast'.status = 200)
          => CountOf(Rows(likeStore', r.cleanId)) = CountOf(r.existing) + 1
    ]_vars

\* Two invocations, both POSTs for page "a" answered 200 with the same count:
\* the stored count rose by 1 only.
C15_Witness ==
  /\ likeLedger # <<>>
  /\ likeStarted = 2 /\ likeReqs = {}
  /\ likeLedger[<<97>>].posts = 2
  /\ likeLedger[<<97>>].initial = 3
  /\ CountOf(Rows(likeStore, <<97>>)) = 4

(***************************************************************************)
(* Claims about the post and note creation endpoints                       *)
(***************************************************************************)

\* The invocation that ended last was a POST to a configured server.
ConfiguredPost ==
  writeLast.ended /\ writeLast.method = "POST" /\ writeEnv.configured

\* ... and it carried the access key.
AuthenticatedPost ==
  ConfiguredPost /\ writeLast.accessKey = Str(WRITE_ACCESS_KEY)

\* C16: on a configured server a POST whose X-Access-Key header is absent or
\* differs from WRITE_ACCESS_KEY is answered 401 without any request to
\* GitHub, whatever its body.
C16_KeyBeforeBody ==
  (ConfiguredPost /\ writeLast.accessKey # Str(WRITE_ACCESS_KEY))
    => /\ writeLast.outcome = "responded"
       /\ writeLast.status = 401
       /\ writeLast.requests = 0

\* A POST to the note endpoint with a wrong key and a body that passes
\* validation was answered 401.
C16_Witness ==
  /\ ConfiguredPost /\ writeLast.status = 401
  /\ writeLast.accessKey = Str(<<120>>)
  /\ writeLast.endpoint = "note"
  /\ writeLast.body = NoteBody(Str(<<97>>), Str(<<97>>), Arr(<<Str(<<97>>)>>))

\* A value that is missing, empty or made of spaces only.
MissingOrBlank(value) ==
  \/ value = Undefined
  \/ value.kind = "string" /\ \A i \in 1..Len(value.text) : value.text[i] = 32

\* The tags are missing, an empty list, or a list of blank strings.
TagsMissingOrBlank(tags) ==
  \/ tags = Undefined
  \/ tags.kind = "array" /\ \A i \in 1..Len(tags.items) : MissingOrBlank(tags.items[i])

\* The body lacks a required field of the endpoint, or there is no body.
RequiredFieldMissing(endpoint, body) ==
  \/ body = NoBody
  \/ body # NoBody /\ endpoint = "post"
       /\ (MissingOrBlank(body.title) \/ MissingOrBlank(body.body))
  \/ body # NoBody /\ endpoint = "note"
       /\ (MissingOrBlank(body.title) \/ MissingOrBlank(body.content)
             \/ TagsMissingOrBlank(body.tags))

\* C17: every authenticated POST in which a required field is missing, empty
\* or whitespace-only, or which has no body at all, is answered 400 and
\* makes no request to GitHub.
C17_MissingFieldIs400 ==
  (AuthenticatedPost /\ RequiredFieldMissing(writeLast.endpoint, writeLast.body))
    => /\ writeLast.outcome = "responded"
       /\ writeLast.status = 400
       /\ writeLast.requests = 0

\* The status the catch block is to answer for a failed write.
MappedStatus(result) ==
  IF result = PutStatus(422) THEN 400
  ELSE IF result = PutStatus(403) THEN 403
  ELSE 500

\* C18: a failed GitHub write is answered 400 for status 422, 403 for status
\* 403 and 500 for every other failure, and the body carries details exactly
\* for a 500 in development.
C18_FailureMapping ==
  (writeLast.ended /\ writeLast.stage = "put" /\ writeLast.result # PutOk)
    => /\ writeLast.outcome = "responded"
       /\ writeLast.status = MappedStatus(writeLast.result)
       /\ writeLast.details
            <=> (writeLast.status = 500 /\ writeEnv.NODE_ENV = "development")

\* A write GitHub refused with 409 was answered 500 with details in
\* development.
C18_Witness ==
  /\ writeLast.ended /\ writeLast.stage = "put"
  /\ writeLast.result = PutStatus(409)
  /\ writeEnv.NODE_ENV = "development"
  /\ writeLast.status = 500 /\ writeLast.details

\* C19: every invocation of the likes, post and note handlers ends with a
\* response; none ends with an exception leaving the handler.
C19_AlwaysResponds ==
  /\ writeLast.ended => writeLast.outcome = "responded"
  /\ likeLast.ended => likeLast.outcome = "responded"

(***************************************************************************)
(* Claims about the construction of the client objects                     *)
(***************************************************************************)

\* C20: when every access to localStorage throws, no constructor of the A/B
\* test manager, the journey tracker or the server tracker lets an exception
\* out, and the visitor id they hold is null.
C20_StorageFailureNonFatal ==
  storageMode = "throws"
    => \A g \in Globals :
         /\ pageObjects[g].state # "threw"
         /\ pageObjects[g].state = "constructed" => pageObjects[g].userId = NullId

(***************************************************************************)
(* Claims about commitToGitHub                                             *)
(***************************************************************************)

\* C25: the filename of a 200 response is the name of the file that was
\* committed, also when the write went to a suffixed path.
C25_ReportedIsCommitted ==
  (commitLast.ended /\ commitLast.status = 200)
    => commitLast.filename = commitLast.written

\* C26: no PUT of the endpoints replaces the content of a file that exists.
C26_NeverOverwrites == repoChanged = {}

(***************************************************************************)
(* Claims about the language memory                                        *)
(***************************************************************************)

\* C27 as stated: within one session at most one automatic redirect happens
\* between two switcher clicks. A click that lands while the timer of a
\* redirect is pending is followed by that redirect and by a second one.
C27_OneRedirectBetweenClicks == langSince.done <= 1

\* C27: within one session at most one automatic redirect is started
\* between two switcher clicks, a page load starts at most one, and a page
\* load that finds 'language-redirected' set starts none; so the redirects
\* of a sequence of page loads never form a loop.
C27_OneRedirectStarted ==
  /\ langSince.started <= 1
  /\ langLast.loaded =>
       /\ langLast.started <= 1
       /\ langLast.flag => langLast.started = 0

\* A redirect took the tab from '/' to '/zh-CN/', whose load found the flag
\* set and the saved language 'en-US' and stayed.
C27_Witness ==
  /\ langLast.loaded /\ langLast.flag
  /\ langPath = <<"zh-CN">>
  /\ langSince = [started |-> 1, done |-> 1]
  /\ langTimers = {}

(***************************************************************************)
(* Claims about the conversion goals                                       *)
(***************************************************************************)

\* C28 as stated: a trackConversionGoal call that names a goal the journey
\* tracker has already recorded adds no ab_test_conversion and no
\* conversion_goal_server event, so that no goal has more of either than
\* it has journey_conversion_goal events, of which it has at most one.
C28_DownstreamDeduplicated ==
  /\ goalLast.called /\ goalLast.known => goalLast.added = 0
  /\ \A g \in GoalNames :
       /\ goalRecords["journey_conversion_goal"][g] <= 1
       /\ goalRecords["ab_test_conversion"][g]
            <= goalRecords["journey_conversion_goal"][g]
       /\ goalRecords["conversion_goal_server"][g]
            <= goalRecords["journey_conversion_goal"][g]

(***************************************************************************)
(* Claims about the exit intent detection                                  *)
(***************************************************************************)

\* C29 as stated: a tracker instance emits at most one journey_exit_intent
\* event, whatever the order of mouse-leave events, their timers, modifier
\* key presses and the inactivity check.
C29_AtMostOneExitIntent == Len(exitEvents) <= 1

(***************************************************************************)
(* Claims about the FormTracker                                            *)
(***************************************************************************)

Sent(name) == \E i \in 1..Len(formEvents) : formEvents[i] = name

\* C30 as stated: form_abandon is sent only for a session in which the user
\* interacted with the form, and never for a session whose form was
\* submitted (a submit event, or a form_submit_success of the session).
C30_AbandonOnlyIfNotSubmitted ==
  Sent("form_abandon") =>
    /\ hasInteracted
    /\ ~Sent("form_submit_attempt")
    /\ ~Sent("form_submit_success")

====
